---- MODULE Spec2Model ----
(***************************************************************************)
(* Decode-submission scheduler of the HarmonyOS Moonlight client           *)
(* (nativelib/src/main/cpp/video_decoder.cpp).                             *)
(*                                                                         *)
(* Three threads share one VideoDecoder object:                            *)
(*   - the network thread, which calls SubmitDecodeUnit for every frame;   *)
(*   - the synchronous decode worker (SyncDecodeLoop), created by Start;   *)
(*   - the controller thread, which calls Init, Start and Stop.            *)
(* The decode engine (the OH_VideoDecoder API) is external: every call to  *)
(* it returns one of the results the code distinguishes, chosen            *)
(* nondeterministically.  A program counter value names the run of engine  *)
(* calls on one slot, or the locked block, a thread is currently in; the   *)
(* action that leaves it is the end of that run or the release of the lock.*)
(***************************************************************************)
EXTENDS Integers, Sequences, FiniteSets, TLC

\* ------------------------------------------------------------------------
\* Bounds of the model
\* ------------------------------------------------------------------------
MaxFrames == 3          \* frames the network thread delivers in one run
MaxSize == 2            \* frame sizes are 1..MaxSize bytes
MaxBufferCount == 3     \* config.bufferCount is drawn from 0..MaxBufferCount
MaxHandles == 2         \* input-slot handles the engine offers in async mode
MaxFaults == 1          \* transient engine failures injected in one run
MaxFramesFatal == 1     \* frames delivered in the runs with a failing output side
MaxFramesBusy == 4      \* frames delivered in the runs with an always-busy input side
MaxFramesStartup == 1   \* frames delivered in the start-up runs
MaxSessionFrames == 3   \* frames delivered over the sessions of one object
MaxTicks == 5           \* clock advances over the sessions of one object
MaxRenderFrames == 3    \* frame numbers whose pts the renderer is asked about
MaxRenderCalls == 3     \* CalculatePresentTime calls in one run
MaxClockSteps == 5      \* advances of the monotonic clock in one run
MaxLatencyFrames == 3    \* frames received and decoded in the latency runs
MaxGuardFrames == 2     \* frames received in the runs that watch statsMutex_
MaxGuardReads == 2      \* GetStats calls in one run
MaxBatchFrames == 5     \* frames delivered in the runs that watch the worker's batches
MaxIdleFrames == 2      \* frames delivered in the runs that watch the worker's idle wait
MaxPresentFrames == 2   \* frames recorded in the runs that watch the render policy
MaxPresentOutputs == 3  \* output callbacks in one run
MaxOutlierFrames == 2   \* frames received and decoded in the runs with clock anomalies
MaxTeardownFrames == 3  \* frames delivered in the runs that delete the instance
MaxResumeFrames == 1    \* frames delivered in the runs that resume a pipeline
MaxDrainFrames == 2     \* frames delivered in the runs that watch the queue drain
MaxSteadyFrames == 4    \* frames received and decoded in the steady runs
MaxLedgerFrames == 3    \* frames recorded beyond the TimestampLedger's capacity
MaxLedgerOutputs == 2   \* outputs looked up in the TimestampLedger in one run

\* ------------------------------------------------------------------------
\* Program constants
\* ------------------------------------------------------------------------
\* a double of stats_ kept as the exact fraction n / d
Ratio(n, d) == [n |-> n, d |-> d]
Zero == Ratio(0, 1)
\* the doubles 0.0 and 1.0 (see the double arithmetic below)
DZero == [m |-> <<>>, e |-> 0]
DOne == [m |-> <<1>>, e |-> 0]

kMaxDirectSubmitRetries == 5
maxQueueBatch == 4
maxConsecutiveErrors == 50
kMinPendingFrames == 2
kMaxPendingFramesClamp == 16
kStatsUpdateIntervalMs == 1000
kMaxValidDecodeTimeMs == 1000
\* the doubles 0.03 and 0.1: an odd integer, least significant limb first
\* in base 2^15, times a power of two
kEmaAlphaKeyframe == [m |-> <<9175, 31457, 23592, 30>>, e |-> -55]
kEmaAlphaNormal == [m |-> <<19661, 6553, 13107, 102>>, e |-> -55]
kPtsStepUs == 16000         \* pts grid of the modelled stream, besides 60 fps
kClockStepNs == 6000000     \* granularity of the modelled monotonic clock
kTickMs == 500              \* granularity of the modelled steady clock
kMaxTimestampMapSize == 120

\* OH_AVBuffer_GetCapacity: a slot fits every frame or is one byte short
Capacities == {MaxSize - 1, MaxSize}
\* size of the k-th frame the network delivers: sizes cycle through 1..MaxSize
FrameSize(k) == ((k - 1) % MaxSize) + 1
NoFrame == [frameNumber |-> 0, size |-> 0]

InputResults == {"OK", "TRY_AGAIN_LATER", "UNSUPPORT", "ERROR"}
OutputResults == {"OK", "TRY_AGAIN_LATER", "STREAM_CHANGED", "ERROR"}

VARIABLES
    decoder,            \* decoder_ != nullptr
    configured,         \* configured_
    running,            \* running_
    syncDecodeRunning,  \* syncDecodeRunning_
    decoderMode,        \* config_.decoderMode: "SYNC" or "ASYNC"
    maxPendingFrames,   \* maxPendingFrames_
    pendingFrameQueue,  \* pendingFrameQueue_ (Fallback Queue), head first
    inputIndexQueue,    \* inputIndexQueue_/inputBufferQueue_ (async handles)
    stats,              \* stats_
    syncDecodeThread,   \* syncDecodeThread_: "none", "running", "finished", "joined"
    net,                \* network thread inside SubmitDecodeUnit
    wrk,                \* decode worker inside SyncDecodeLoop
    ctl,                \* controller thread inside Init/Start/Stop
    frameCount,         \* frames delivered so far by the network thread
    handleCount,        \* handles delivered so far by the input-available callback
    pushed,             \* frameNumbers for which PushInputBuffer returned AV_ERR_OK, in order
    outCount,           \* outputs the engine has handed out so far
    leaked,             \* kinds of slot handle ("input", "output") dropped without push/render/free
    unsupportedSeen,    \* QueryInputBuffer has answered AV_ERR_UNSUPPORT
    accepted,           \* calls that passed the running check: [calls, bytes];
                        \* decode-latency samples UpdateDecodedStats took:
                        \* [samples, sample, keyframe] (how many, the
                        \* last one, whether it was a keyframe's); the last
                        \* decoded output: [entry, stamped, decodeTimeMs]
                        \* (whether the TimestampLedger had its pts,
                        \* whether the enqueue time passed on was positive,
                        \* now minus that time where it was computed)
    faults,             \* transient engine failures injected so far
    env,                \* the run's environment: [frameLimit, faultLimit,
                        \* outputBroken, inputBusy]
    timestampToEnqueueTime, \* keys of timestampToEnqueueTime_ (TimestampLedger)
    statsTiming,        \* stats_: window baselines, rates and decode latency
    steadyClock,        \* std::chrono::steady_clock, in milliseconds
    render,             \* NativeRender: its Presentation Clock and the
                        \* monotonic clock it reads
    locks,              \* the pipeline's four mutexes: the locks each thread
                        \* holds in the order it took them, the lock
                        \* operations left in the call it is in, whether Stop
                        \* has cleared the flags, whether the worker returned
    statsGuard          \* statsMutex_: its owner, where each thread is in
                        \* its critical section, and what GetStats returned

vars == <<decoder, configured, running, syncDecodeRunning, decoderMode,
          maxPendingFrames, pendingFrameQueue, inputIndexQueue, stats,
          syncDecodeThread, net, wrk, ctl, frameCount, handleCount, pushed,
          outCount, leaked, unsupportedSeen, accepted, faults, env, locks,
          timestampToEnqueueTime, statsTiming, steadyClock, render,
          statsGuard>>

pipelineVars == <<decoder, configured, running, syncDecodeRunning, decoderMode,
                  maxPendingFrames>>
engineVars == <<pushed, outCount, handleCount>>
ledgerVars == <<timestampToEnqueueTime>>
timingVars == <<statsTiming, steadyClock>>

\* the engine may fail once more in this run
CanFail == faults < env.faultLimit

\* an engine call whose result is a failure uses up one injected failure
Inject(failing) ==
    /\ failing => CanFail
    /\ faults' = IF failing THEN faults + 1 ELSE faults

\* ------------------------------------------------------------------------
\* Pure helpers
\* ------------------------------------------------------------------------
Clamp(v, lo, hi) == IF v < lo THEN lo ELSE IF v > hi THEN hi ELSE v

\* Init: maxPendingFrames_ from config_.bufferCount
MaxPendingFor(bufferCount) ==
    IF bufferCount > 0
    THEN Clamp(bufferCount, kMinPendingFrames, kMaxPendingFramesClamp)
    ELSE kMinPendingFrames

\* while (pendingFrameQueue_.size() >= maxPendingFrames_) pop
QueueFullBroken(q, max) == Len(q) > max
QueueFull(q, max) == Len(q) >= max

RECURSIVE EvictOldest(_, _)
EvictOldest(q, max) ==
    IF QueueFull(q, max) /\ Len(q) > 0 THEN EvictOldest(Tail(q), max) ELSE q

\* number of entries the eviction loop pops
EvictedBroken(q, max) == 0
Evicted(q, max) == Len(q) - Len(EvictOldest(q, max))

\* pendingFrameQueue_.push(std::move(frame))
PushBackBroken(q, f) == <<f>> \o q
PushBack(q, f) == Append(q, f)

\* stats_.droppedFrames++ (n times)
CountDroppedBroken(s, n) == s
CountDropped(s, n) == [s EXCEPT !.droppedFrames = @ + n]

\* UpdateReceivedStats: stats_.totalFrames++, stats_.totalBytesReceived += size
UpdateReceivedStatsBroken(s, size) ==
    [s EXCEPT !.totalBytesReceived = @ + size]
UpdateReceivedStats(s, size) ==
    [s EXCEPT !.totalFrames = @ + 1, !.totalBytesReceived = @ + size]

\* return code of the async wait_for timeout branch
kTimeoutReturn == -1

\* the timing fields of stats_ after memset(&stats_, 0, sizeof(stats_))
FreshTiming == [lastFpsCalculationTime |-> 0, lastFrameCount |-> 0,
                lastDecodedFrameCount |-> 0, lastBytesCount |-> 0,
                currentFps |-> Zero, renderedFps |-> Zero,
                currentBitrate |-> Zero,
                averageDecodeTimeMs |-> DZero, maxDecodeTimeMs |-> 0]

\* NativeRender as constructed: configuredFps_ = 60, no time base.  nowNs is
\* CLOCK_MONOTONIC; pts and ret are the argument and the result of the
\* last CalculatePresentTime call, calls counts those calls, late tells
\* that the last call found its target in the past, crashed that a call
\* divided by configuredFps_ = 0.  vsyncEnabled is vsyncEnabled_; setter
\* is the position of the thread inside SetVsyncEnabled and cb that of the
\* engine thread inside an output callback (with the pts of its buffer and
\* the policy it loaded); immediate and timed count the calls of
\* RenderOutputBuffer and RenderOutputBufferAtTime, outputs the callbacks.
\* pendingAnchor (ghost): the policy value has changed and no timed frame
\* has been scheduled since; cb.sawChange: it held when cb loaded the policy.
CbIdle == [pc |-> "idle", pts |-> 0, timed |-> FALSE, sawChange |-> FALSE]
RenderInit == [configuredFps |-> 60, timeBaseInitialized |-> FALSE,
               baseSystemTimeNs |-> 0, basePtsUs |-> 0, nowNs |-> 0,
               pts |-> 0, ret |-> 0, calls |-> 0, crashed |-> FALSE,
               late |-> FALSE, vsyncEnabled |-> FALSE, setter |-> "idle",
               cb |-> CbIdle, immediate |-> 0, timed |-> 0, outputs |-> 0,
               pendingAnchor |-> FALSE]

InitStats == [totalFrames |-> 0, totalBytesReceived |-> 0,
              droppedFrames |-> 0, decodedFrames |-> 0]

\* threads that use stats_: the network thread (SubmitDecodeUnit), the
\* output thread (decode worker or output callback) and the application
\* thread (GetStats)
StatsThreads == {"net", "out", "app"}
\* statsMutex_ unlocked, no thread inside a critical section, no snapshot
\* taken yet
GuardInit == [owner |-> "none", pos |-> [t \in StatsThreads |-> "idle"],
              snapshot |-> [counters |-> InitStats, timing |-> FreshTiming],
              reads |-> 0]

\* the threads that take the pipeline's mutexes: the network thread, the
\* decode worker, the engine's callback thread, the application thread
\* (GetStats) and the controller (Stop, Cleanup)
LockThreads == {"net", "wrk", "cb", "app", "ctl"}
\* pendingFrameMutex_, inputMutex_, timestampMutex_, statsMutex_
Mutexes == {"pending", "input", "ledger", "stats"}
\* no mutex held, no call in progress, flags not cleared, worker running
LocksInit == [stack |-> [t \in LockThreads |-> <<>>],
              todo |-> [t \in LockThreads |-> <<>>],
              stopping |-> FALSE, exited |-> FALSE]

NetIdle == [pc |-> "idle", frame |-> NoFrame, retryCount |-> 0,
            ret |-> 0, mode |-> "none", allBusy |-> FALSE,
            afterUnsupported |-> FALSE]
WrkInit == [pc |-> "not_started", queueProcessed |-> 0,
            consecutiveOutputErrors |-> 0, frame |-> NoFrame,
            aborted |-> FALSE, interrupted |-> FALSE]
CtlInit == [pc |-> "idle", last |-> "constructed", ret |-> 0,
            failedAt |-> "none", instance |-> TRUE,
            needAsyncFallback |-> FALSE, registered |-> 0]

\* ------------------------------------------------------------------------
\* Initial state: VideoDecoder::VideoDecoder()
\* ------------------------------------------------------------------------
Constructed ==
    /\ decoder = FALSE
    /\ configured = FALSE
    /\ running = FALSE
    /\ syncDecodeRunning = FALSE
    /\ decoderMode = "ASYNC"
    /\ maxPendingFrames = 2
    /\ pendingFrameQueue = <<>>
    /\ inputIndexQueue = <<>>
    /\ stats = InitStats
    /\ syncDecodeThread = "none"
    /\ net = NetIdle
    /\ wrk = WrkInit
    /\ ctl = CtlInit
    /\ frameCount = 0
    /\ handleCount = 0
    /\ pushed = <<>>
    /\ outCount = 0
    /\ leaked = {}
    /\ unsupportedSeen = FALSE
    /\ accepted = [calls |-> 0, bytes |-> 0, samples |-> 0, sample |-> 0,
                   keyframe |-> FALSE, entry |-> FALSE, stamped |-> FALSE,
                   decodeTimeMs |-> 0]
    /\ faults = 0
    /\ timestampToEnqueueTime = {}
    /\ statsTiming = FreshTiming
    /\ steadyClock = kTickMs
    /\ render = RenderInit
    /\ statsGuard = GuardInit
    /\ locks = LocksInit

\* runs of MaxFrames frames without engine failures, and runs of one frame
\* fewer in which engine failures are transient (at most MaxFaults of them)
Init ==
    /\ Constructed
    /\ env \in {[frameLimit |-> MaxFrames, faultLimit |-> 0,
                  outputBroken |-> FALSE, inputBusy |-> FALSE],
                 [frameLimit |-> MaxFrames - 1, faultLimit |-> MaxFaults,
                  outputBroken |-> FALSE, inputBusy |-> FALSE]}

\* runs in which QueryOutputBuffer may fail any number of times
InitFatal ==
    /\ Constructed
    /\ env = [frameLimit |-> MaxFramesFatal, faultLimit |-> 0,
              outputBroken |-> TRUE, inputBusy |-> FALSE]

\* runs in which QueryInputBuffer answers AV_ERR_TRY_AGAIN_LATER every time
InitBusy ==
    /\ Constructed
    /\ env = [frameLimit |-> MaxFramesBusy, faultLimit |-> 0,
              outputBroken |-> FALSE, inputBusy |-> TRUE]

\* ------------------------------------------------------------------------
\* Controller thread: VideoDecoder::Init, Start, Stop
\* ------------------------------------------------------------------------

\* the engine calls of Init that can fail, in the order Init makes them
InitSteps == {"create", "register", "format", "configure", "surface", "prepare"}

\* callbacks are registered in async mode, and in sync mode when
\* OH_MD_KEY_ENABLE_SYNC_MODE is missing (after the format was created)
InitCalls(mode, syncKey) ==
    IF mode = "ASYNC" \/ ~syncKey THEN InitSteps ELSE InitSteps \ {"register"}

\* decoder_ when Init returns: every failing step destroys the handle
HandleAfterInitBroken(failAt) == failAt \in {"none", "prepare"}
HandleAfterInit(failAt) == failAt = "none"

\* needAsyncFallback of Init: sync mode was requested and the engine has no
\* OH_MD_KEY_ENABLE_SYNC_MODE (decided after the format was created)
NeedAsyncFallback(mode, syncKey, failAt) ==
    mode = "SYNC" /\ ~syncKey /\ failAt \notin {"create", "format"}

\* successful OH_VideoDecoder_RegisterCallback calls of one Init: the one
\* made when config_.decoderMode is ASYNC on entry, plus the one of the
\* fallback block
CallbacksRegisteredBroken(mode, syncKey, failAt) ==
    (IF failAt \notin {"create", "register"} THEN 1 ELSE 0)
    + (IF NeedAsyncFallback(mode, syncKey, failAt) /\ failAt # "register"
       THEN 1 ELSE 0)
CallbacksRegistered(mode, syncKey, failAt) ==
    (IF mode = "ASYNC" /\ failAt \notin {"create", "register"} THEN 1 ELSE 0)
    + (IF NeedAsyncFallback(mode, syncKey, failAt) /\ failAt # "register"
       THEN 1 ELSE 0)

\* VideoDecoder::Init.  mode is config.decoderMode, syncKey tells whether
\* OH_MD_KEY_ENABLE_SYNC_MODE is available, failAt names the engine call of
\* Init that fails ("none": every call succeeds).
DecoderInit(mode, bufferCount, syncKey, failAt) ==
    /\ ctl.pc = "idle"
    /\ ctl.last \in {"constructed", "Cleanup"}
    /\ failAt \in InitCalls(mode, syncKey) \cup {"none"}
    /\ maxPendingFrames' = MaxPendingFor(bufferCount)
    /\ decoderMode' = IF NeedAsyncFallback(mode, syncKey, failAt)
                      THEN "ASYNC" ELSE mode
    /\ decoder' = HandleAfterInit(failAt)
    /\ configured' = IF failAt = "none" THEN TRUE ELSE configured
    /\ ctl' = [ctl EXCEPT !.last = "Init", !.failedAt = failAt,
                          !.ret = IF failAt = "none" THEN 0 ELSE -1,
                          !.needAsyncFallback =
                              NeedAsyncFallback(mode, syncKey, failAt),
                          !.registered =
                              CallbacksRegistered(mode, syncKey, failAt)]
    /\ UNCHANGED <<running, syncDecodeRunning, pendingFrameQueue,
                   inputIndexQueue, stats, syncDecodeThread, net, wrk,
                   frameCount, handleCount, pushed, outCount, leaked,
                   unsupportedSeen, accepted, faults, env, locks, statsGuard,
                   ledgerVars, timingVars, render>>

\* VideoDecoder::Start.  startOk is the result of OH_VideoDecoder_Start.
Start(startOk) ==
    /\ ctl.pc = "idle"
    /\ ctl.last = "Init"
    /\ IF ~configured \/ ~decoder \/ ~startOk
       THEN /\ ctl' = [ctl EXCEPT !.last = "StartFailed", !.ret = -1]
            /\ UNCHANGED <<running, syncDecodeRunning, syncDecodeThread, wrk>>
       ELSE /\ running' = TRUE
            /\ IF decoderMode = "SYNC"
               THEN /\ syncDecodeRunning' = TRUE
                    /\ syncDecodeThread' = "running"
                    /\ wrk' = [WrkInit EXCEPT !.pc = "loop"]
               ELSE UNCHANGED <<syncDecodeRunning, syncDecodeThread, wrk>>
            /\ ctl' = [ctl EXCEPT !.last = "Start", !.ret = 0]
    /\ UNCHANGED <<decoder, configured, decoderMode, maxPendingFrames,
                   pendingFrameQueue, inputIndexQueue, stats, net, frameCount,
                   handleCount, pushed, outCount, leaked, unsupportedSeen,
                   accepted, faults, env, locks, statsGuard, ledgerVars,
                   timingVars, render>>

Joinable == syncDecodeThread \in {"running", "finished"}

\* VideoDecoder::Stop, up to the join: running_ = false; if
\* (syncDecodeRunning_) { syncDecodeRunning_ = false; notify_all; join }
StopBegin ==
    /\ ctl.pc = "idle"
    /\ ctl.last \in {"Init", "Start", "StartFailed"}
    /\ running' = FALSE
    /\ IF syncDecodeRunning
       THEN /\ syncDecodeRunning' = FALSE
            /\ ctl' = [ctl EXCEPT !.pc = IF Joinable THEN "stop_join"
                                         ELSE "stop_clear"]
       ELSE /\ UNCHANGED syncDecodeRunning
            /\ ctl' = [ctl EXCEPT !.pc = "stop_clear"]
    /\ UNCHANGED <<decoder, configured, decoderMode, maxPendingFrames,
                   pendingFrameQueue, inputIndexQueue, stats,
                   syncDecodeThread, net, wrk, frameCount, handleCount,
                   pushed, outCount, leaked, unsupportedSeen, accepted,
                   faults, env, locks, statsGuard, ledgerVars, timingVars,
                   render>>

\* syncDecodeThread_.join() returns once SyncDecodeLoop has returned
StopJoin ==
    /\ ctl.pc = "stop_join"
    /\ syncDecodeThread = "finished"
    /\ syncDecodeThread' = "joined"
    /\ ctl' = [ctl EXCEPT !.pc = "stop_clear"]
    /\ UNCHANGED <<pipelineVars, pendingFrameQueue, inputIndexQueue, stats,
                   net, wrk, frameCount, engineVars, leaked, unsupportedSeen,
                   accepted, faults, env, locks, statsGuard, ledgerVars,
                   timingVars, render>>

\* rest of Stop: OH_VideoDecoder_Stop, inputCond_.notify_all, clear the
\* Fallback Queue under pendingFrameMutex_, return 0
StopClear ==
    /\ ctl.pc = "stop_clear"
    /\ pendingFrameQueue' = <<>>
    /\ ctl' = [ctl EXCEPT !.pc = "idle", !.last = "Stop", !.ret = 0]
    /\ UNCHANGED <<pipelineVars, inputIndexQueue, stats, syncDecodeThread,
                   net, wrk, frameCount, engineVars, leaked, unsupportedSeen,
                   accepted, faults, env, locks, statsGuard, ledgerVars,
                   timingVars, render>>

\* VideoDecoderInstance::Start after Init or Start returned non-zero:
\* delete g_videoDecoder (the destructor runs Cleanup; no worker thread
\* exists because Start never succeeded), g_videoDecoder = nullptr, return
\* the failure
InstanceDiscard ==
    /\ ctl.pc = "idle"
    /\ ctl.instance
    /\ ctl.last \in {"Init", "StartFailed"} /\ ctl.ret # 0
    /\ running' = FALSE
    /\ decoder' = FALSE
    /\ configured' = FALSE
    /\ inputIndexQueue' = <<>>
    /\ pendingFrameQueue' = <<>>
    /\ timestampToEnqueueTime' = {}
    /\ ctl' = [ctl EXCEPT !.last = "deleted", !.instance = FALSE]
    /\ UNCHANGED <<syncDecodeRunning, decoderMode, maxPendingFrames, stats,
                   syncDecodeThread, net, wrk, frameCount, engineVars, leaked,
                   unsupportedSeen, accepted, faults, env, locks, statsGuard,
                   timingVars, render>>

\* ------------------------------------------------------------------------
\* Network thread: VideoDecoder::SubmitDecodeUnit
\* ------------------------------------------------------------------------

\* while (retryCount < kMaxDirectSubmitRetries && running_)
LoopPcBroken(retryCount) ==
    IF retryCount <= kMaxDirectSubmitRetries /\ running
    THEN "query" ELSE "enqueue"
LoopPc(retryCount) ==
    IF retryCount < kMaxDirectSubmitRetries /\ running
    THEN "query" ELSE "enqueue"

\* the call returns: only the ghost fields survive in the idle record
Return(code, path) == [NetIdle EXCEPT !.ret = code]

\* if (!running_ || decoder_ == nullptr) return -1;
NotRunningBroken == ~decoder
NotRunning == ~running \/ ~decoder

\* entry of SubmitDecodeUnit: the running check, then (sync mode) the
\* received statistics and the first loop test
SubmitBegin ==
    /\ net.pc = "idle"
    /\ frameCount < env.frameLimit
    /\ frameCount' = frameCount + 1
    /\ LET size == FrameSize(frameCount + 1)
           frame == [frameNumber |-> frameCount + 1, size |-> size] IN
       IF NotRunning
       THEN /\ net' = Return(-1, "not_running")
            /\ UNCHANGED <<stats, accepted>>
       ELSE /\ accepted' = [accepted EXCEPT !.calls = @ + 1,
                                            !.bytes = @ + size]
            /\ IF decoderMode = "SYNC"
               THEN /\ stats' = UpdateReceivedStats(stats, size)
                    /\ net' = [NetIdle EXCEPT !.pc = LoopPc(0),
                                  !.frame = frame, !.mode = "sync",
                                  !.allBusy = TRUE,
                                  !.afterUnsupported = unsupportedSeen]
               ELSE /\ UNCHANGED stats
                    /\ net' = [NetIdle EXCEPT !.pc = "async_lock",
                                  !.frame = frame, !.mode = "async",
                                  !.afterUnsupported = unsupportedSeen]
    /\ UNCHANGED <<pipelineVars, pendingFrameQueue, inputIndexQueue,
                   syncDecodeThread, wrk, ctl, engineVars, leaked,
                   unsupportedSeen, faults, env, locks, statsGuard,
                   ledgerVars, timingVars, render>>

\* one pass of the direct-submit loop: QueryInputBuffer, then on the slot it
\* returned GetInputBuffer, GetAddr, GetCapacity, memcpy, SetBufferAttr and
\* PushInputBuffer.  The pass ends at the first call that fails.
SyncAttempt ==
    /\ net.pc = "query"
    /\ LET retry == [net EXCEPT !.retryCount = @ + 1, !.allBusy = FALSE,
                                !.pc = LoopPc(net.retryCount + 1)]
       IN  \/ /\ Inject(FALSE)                  \* AV_ERR_TRY_AGAIN_LATER
              /\ net' = [net EXCEPT !.retryCount = @ + 1,
                                    !.pc = LoopPc(net.retryCount + 1)]
              /\ UNCHANGED <<unsupportedSeen, leaked, pushed>>
           \/ /\ ~env.inputBusy
              /\ Inject(TRUE)                   \* AV_ERR_UNSUPPORT
              /\ net' = [net EXCEPT !.pc = "enqueue", !.allBusy = FALSE]
              /\ unsupportedSeen' = TRUE
              /\ UNCHANGED <<leaked, pushed>>
           \/ /\ ~env.inputBusy
              /\ Inject(TRUE)                   \* any other error
              /\ net' = [net EXCEPT !.pc = "enqueue", !.allBusy = FALSE]
              /\ UNCHANGED <<unsupportedSeen, leaked, pushed>>
           \/ /\ ~env.inputBusy
              /\ Inject(TRUE)                   \* GetInputBuffer or GetAddr null
              /\ leaked' = leaked \cup {"input"}
              /\ net' = retry
              /\ UNCHANGED <<unsupportedSeen, pushed>>
           \/ /\ ~env.inputBusy
              /\ \E capacity \in Capacities :
                    IF net.frame.size > capacity
                    THEN /\ Inject(TRUE)        \* frame too large: return -1
                         /\ leaked' = leaked \cup {"input"}
                         /\ net' = Return(-1, "too_large")
                         /\ UNCHANGED <<unsupportedSeen, pushed>>
                    ELSE \E ok \in BOOLEAN :    \* PushInputBuffer
                         /\ Inject(~ok)
                         /\ pushed' = IF ok
                                      THEN Append(pushed, net.frame.frameNumber)
                                      ELSE pushed
                         /\ net' = IF ok THEN Return(0, "direct") ELSE retry
                         /\ UNCHANGED <<unsupportedSeen, leaked>>
    /\ UNCHANGED <<pipelineVars, pendingFrameQueue, inputIndexQueue, stats,
                   syncDecodeThread, wrk, ctl, frameCount, outCount,
                   handleCount, accepted, env, locks, statsGuard, ledgerVars,
                   timingVars, render>>

\* the fallback block under pendingFrameMutex_, and return 0
SyncEnqueue ==
    /\ net.pc = "enqueue"
    /\ pendingFrameQueue' =
           PushBack(EvictOldest(pendingFrameQueue, maxPendingFrames), net.frame)
    /\ stats' = CountDropped(stats, Evicted(pendingFrameQueue, maxPendingFrames))
    /\ net' = Return(0, "fallback")
    /\ UNCHANGED <<pipelineVars, inputIndexQueue, syncDecodeThread, wrk, ctl,
                   frameCount, engineVars, leaked, unsupportedSeen, accepted,
                   faults, env, locks, statsGuard, ledgerVars, timingVars,
                   render>>

\* if (!running_ || inputIndexQueue_.empty()) return -1; else pop a handle
AsyncTake ==
    IF ~running \/ inputIndexQueue = <<>>
    THEN /\ net' = Return(-1, "async_stopped")
         /\ UNCHANGED inputIndexQueue
    ELSE /\ net' = [net EXCEPT !.pc = "async_fill"]
         /\ inputIndexQueue' = Tail(inputIndexQueue)

\* the block under inputMutex_ when it is entered
AsyncLock ==
    /\ net.pc = "async_lock"
    /\ IF inputIndexQueue = <<>>
       THEN /\ net' = [net EXCEPT !.pc = "async_wait"]
            /\ UNCHANGED inputIndexQueue
       ELSE AsyncTake
    /\ UNCHANGED <<pipelineVars, pendingFrameQueue, stats, syncDecodeThread,
                   wrk, ctl, frameCount, engineVars, leaked, unsupportedSeen,
                   accepted, faults, env, locks, statsGuard, ledgerVars,
                   timingVars, render>>

\* inputCond_.wait_for times out with its predicate still false
AsyncWaitTimeout ==
    /\ net.pc = "async_wait"
    /\ inputIndexQueue = <<>> /\ running
    /\ stats' = CountDropped(stats, 1)
    /\ net' = Return(kTimeoutReturn, "async_timeout")
    /\ UNCHANGED <<pipelineVars, pendingFrameQueue, inputIndexQueue,
                   syncDecodeThread, wrk, ctl, frameCount, engineVars, leaked,
                   unsupportedSeen, accepted, faults, env, locks, statsGuard,
                   ledgerVars, timingVars, render>>

\* inputCond_.wait_for returns with its predicate true
AsyncWaitWake ==
    /\ net.pc = "async_wait"
    /\ inputIndexQueue # <<>> \/ ~running
    /\ AsyncTake
    /\ UNCHANGED <<pipelineVars, pendingFrameQueue, stats, syncDecodeThread,
                   wrk, ctl, frameCount, engineVars, leaked, unsupportedSeen,
                   accepted, faults, env, locks, statsGuard, ledgerVars,
                   timingVars, render>>

\* GetAddr, GetCapacity, memcpy, SetBufferAttr on the handle taken, then
\* PushInputBuffer and, on success, UpdateReceivedStats
AsyncSubmit ==
    /\ net.pc = "async_fill"
    /\ \/ /\ Inject(TRUE)                       \* GetAddr null
          /\ leaked' = leaked \cup {"input"}
          /\ net' = Return(-1, "async_getaddr")
          /\ UNCHANGED <<pushed, stats>>
       \/ \E capacity \in Capacities :
             IF net.frame.size > capacity
             THEN /\ Inject(TRUE)               \* frame too large
                  /\ leaked' = leaked \cup {"input"}
                  /\ net' = Return(-1, "too_large")
                  /\ UNCHANGED <<pushed, stats>>
             ELSE \E ok \in BOOLEAN :           \* PushInputBuffer
                  /\ Inject(~ok)
                  /\ pushed' = IF ok THEN Append(pushed, net.frame.frameNumber)
                               ELSE pushed
                  /\ stats' = IF ok THEN UpdateReceivedStats(stats, net.frame.size)
                              ELSE stats
                  /\ net' = Return(IF ok THEN 0 ELSE -1, "async")
                  /\ UNCHANGED leaked
    /\ UNCHANGED <<pipelineVars, pendingFrameQueue, inputIndexQueue,
                   syncDecodeThread, wrk, ctl, frameCount, outCount,
                   handleCount, unsupportedSeen, accepted, env, locks,
                   statsGuard, ledgerVars, timingVars, render>>

\* VideoDecoder::OnInputBufferAvailable (engine callback thread)
OnInputBufferAvailable ==
    /\ decoderMode = "ASYNC" /\ decoder /\ running
    /\ handleCount < MaxHandles
    /\ handleCount' = handleCount + 1
    /\ inputIndexQueue' = Append(inputIndexQueue, handleCount + 1)
    /\ UNCHANGED <<pipelineVars, pendingFrameQueue, stats, syncDecodeThread,
                   net, wrk, ctl, frameCount, pushed, outCount, leaked,
                   unsupportedSeen, accepted, faults, env, locks, statsGuard,
                   ledgerVars, timingVars, render>>

\* ------------------------------------------------------------------------
\* Decode worker: VideoDecoder::SyncDecodeLoop, SyncProcessInput,
\* SyncProcessOutput
\* ------------------------------------------------------------------------
RenderResults == {"GETBUF_NULL", "EOS", "RENDER_OK", "RENDER_FAIL"}

\* while (syncDecodeRunning_ && running_)
WorkerLoop ==
    /\ wrk.pc = "loop"
    /\ IF syncDecodeRunning /\ running
       THEN /\ wrk' = [wrk EXCEPT !.pc = "batch", !.queueProcessed = 0]
            /\ UNCHANGED syncDecodeThread
       ELSE /\ wrk' = [wrk EXCEPT !.pc = "exited"]
            /\ syncDecodeThread' = "finished"
    /\ UNCHANGED <<pipelineVars, pendingFrameQueue, inputIndexQueue, stats,
                   net, ctl, frameCount, engineVars, leaked, unsupportedSeen,
                   accepted, faults, env, locks, statsGuard, ledgerVars,
                   timingVars, render>>

\* while (queueProcessed < maxQueueBatch): hasQueuedFrame under the lock,
\* then the entry of SyncProcessInput (decoder_/syncDecodeRunning_ check and
\* its own look at the queue); a return of 0 ends the batch
BatchOpenBroken(queueProcessed) == queueProcessed <= maxQueueBatch
BatchOpen(queueProcessed) == queueProcessed < maxQueueBatch

WorkerBatch ==
    /\ wrk.pc = "batch"
    /\ wrk' = [wrk EXCEPT !.pc =
                  IF /\ BatchOpen(wrk.queueProcessed)
                     /\ pendingFrameQueue # <<>>
                     /\ decoder /\ syncDecodeRunning
                  THEN "query" ELSE "output"]
    /\ UNCHANGED <<pipelineVars, pendingFrameQueue, inputIndexQueue, stats,
                   syncDecodeThread, net, ctl, frameCount, engineVars, leaked,
                   unsupportedSeen, accepted, faults, env, locks, statsGuard,
                   ledgerVars, timingVars, render>>

\* return of OH_VideoDecoder_QueryInputBuffer in SyncProcessInput
WorkerQuery(res) ==
    /\ wrk.pc = "query"
    /\ env.inputBusy => res = "TRY_AGAIN_LATER"
    /\ Inject(res \in {"UNSUPPORT", "ERROR"})
    /\ \/ /\ res = "OK"
          /\ wrk' = [wrk EXCEPT !.pc = "take"]
          /\ UNCHANGED <<syncDecodeRunning, unsupportedSeen>>
       \/ /\ res \in {"TRY_AGAIN_LATER", "ERROR"}
          /\ wrk' = [wrk EXCEPT !.pc = "output"]
          /\ UNCHANGED <<syncDecodeRunning, unsupportedSeen>>
       \/ /\ res = "UNSUPPORT"
          /\ syncDecodeRunning' = FALSE
          /\ unsupportedSeen' = TRUE
          /\ wrk' = [wrk EXCEPT !.pc = "output"]
    /\ UNCHANGED <<decoder, configured, running, decoderMode,
                   maxPendingFrames, pendingFrameQueue, inputIndexQueue,
                   stats, syncDecodeThread, net, ctl, frameCount, engineVars,
                   leaked, accepted, env, locks, statsGuard, ledgerVars,
                   timingVars, render>>

\* pendingFrameQueue_.pop() after the move from front()
PopFrontBroken(queue) == queue
PopFront(queue) == Tail(queue)

\* second locked block of SyncProcessInput: take the head frame
WorkerTake ==
    /\ wrk.pc = "take"
    /\ IF pendingFrameQueue = <<>>
       THEN /\ leaked' = leaked \cup {"input"}
            /\ wrk' = [wrk EXCEPT !.pc = "output"]
            /\ UNCHANGED pendingFrameQueue
       ELSE /\ wrk' = [wrk EXCEPT !.pc = "fill",
                                  !.frame = Head(pendingFrameQueue)]
            /\ pendingFrameQueue' = PopFront(pendingFrameQueue)
            /\ UNCHANGED leaked
    /\ UNCHANGED <<pipelineVars, inputIndexQueue, stats, syncDecodeThread,
                   net, ctl, frameCount, engineVars, unsupportedSeen,
                   accepted, faults, env, locks, statsGuard, ledgerVars,
                   timingVars, render>>

\* rest of SyncProcessInput on the slot: GetInputBuffer, GetAddr,
\* GetCapacity, memcpy, SetBufferAttr, PushInputBuffer.  Only a successful
\* push returns 1 and continues the batch.
WorkerSubmit ==
    /\ wrk.pc = "fill"
    /\ \/ /\ Inject(TRUE)                       \* GetInputBuffer or GetAddr null
          /\ leaked' = leaked \cup {"input"}
          /\ wrk' = [wrk EXCEPT !.pc = "output", !.frame = NoFrame]
          /\ UNCHANGED pushed
       \/ \E capacity \in Capacities :
             IF wrk.frame.size > capacity
             THEN /\ Inject(TRUE)               \* frame too large
                  /\ leaked' = leaked \cup {"input"}
                  /\ wrk' = [wrk EXCEPT !.pc = "output", !.frame = NoFrame]
                  /\ UNCHANGED pushed
             ELSE \E ok \in BOOLEAN :           \* PushInputBuffer
                  /\ Inject(~ok)
                  /\ pushed' = IF ok THEN Append(pushed, wrk.frame.frameNumber)
                               ELSE pushed
                  /\ wrk' = IF ok
                            THEN [wrk EXCEPT !.pc = "batch", !.frame = NoFrame,
                                             !.queueProcessed = @ + 1]
                            ELSE [wrk EXCEPT !.pc = "output", !.frame = NoFrame]
                  /\ UNCHANGED leaked
    /\ UNCHANGED <<pipelineVars, pendingFrameQueue, inputIndexQueue, stats,
                   syncDecodeThread, net, ctl, frameCount, outCount,
                   handleCount, unsupportedSeen, accepted, env, locks,
                   statsGuard, ledgerVars, timingVars, render>>

\* else branch of the output result: outputResult == 0, and under
\* pendingFrameMutex_ the queue is empty and syncDecodeRunning_ holds
IdleWaitBroken(r) == r = 0 /\ syncDecodeRunning
IdleWait(r) == r = 0 /\ pendingFrameQueue = <<>> /\ syncDecodeRunning

\* SyncDecodeLoop after SyncProcessOutput returned r: the error counter,
\* the idle wait under pendingFrameMutex_, and the abort check
AfterOutput(r) ==
    LET errors == IF r > 0 THEN 0
                  ELSE IF r < 0 THEN wrk.consecutiveOutputErrors + 1
                  ELSE wrk.consecutiveOutputErrors
        idle == IdleWait(r)
        \* ghost, kept in the runs in which the abort can happen: since the
        \* counter was last 0, a call of SyncProcessOutput that did not fail
        \* has come between failed ones
        row == IF ~env.outputBroken \/ r > 0 THEN FALSE
               ELSE IF r = 0 THEN wrk.consecutiveOutputErrors > 0
               ELSE wrk.interrupted
    IN  IF idle
        THEN /\ wrk' = [wrk EXCEPT !.pc = "wait", !.interrupted = row]
             /\ UNCHANGED syncDecodeThread
        ELSE IF errors >= maxConsecutiveErrors
        THEN /\ wrk' = [wrk EXCEPT !.pc = "exited", !.aborted = TRUE,
                                   !.consecutiveOutputErrors = errors,
                                   !.interrupted = row]
             /\ syncDecodeThread' = "finished"
        ELSE /\ wrk' = [wrk EXCEPT !.pc = "loop",
                                   !.consecutiveOutputErrors = errors,
                                   !.interrupted = row]
             /\ UNCHANGED syncDecodeThread

\* entry of SyncProcessOutput and return of OH_VideoDecoder_QueryOutputBuffer
WorkerOutput(res) ==
    /\ wrk.pc = "output"
    /\ IF ~decoder \/ ~syncDecodeRunning
       THEN AfterOutput(0) /\ UNCHANGED <<outCount, faults>>
       ELSE \/ /\ res \in {"TRY_AGAIN_LATER", "STREAM_CHANGED"}
               /\ AfterOutput(0) /\ UNCHANGED <<outCount, faults>>
            \/ /\ res = "ERROR"
               /\ IF env.outputBroken THEN UNCHANGED faults ELSE Inject(TRUE)
               /\ AfterOutput(-1) /\ UNCHANGED outCount
            \/ /\ res = "OK"
               /\ outCount < Len(pushed)
               /\ outCount' = outCount + 1
               /\ wrk' = [wrk EXCEPT !.pc = "render"]
               /\ UNCHANGED <<syncDecodeThread, faults>>
    /\ UNCHANGED <<pipelineVars, pendingFrameQueue, inputIndexQueue, stats,
                   net, ctl, frameCount, pushed, handleCount, leaked,
                   unsupportedSeen, accepted, env, locks, statsGuard,
                   ledgerVars, timingVars, render>>

\* rest of SyncProcessOutput on the polled slot: GetOutputBuffer, EOS check,
\* UpdateDecodedStats, RenderOutputBuffer, FreeOutputBuffer
WorkerRender(out) ==
    /\ wrk.pc = "render"
    /\ Inject(out # "RENDER_OK")
    /\ \/ /\ out = "GETBUF_NULL"
          /\ leaked' = leaked \cup {"output"}
          /\ UNCHANGED stats
          /\ AfterOutput(-1)
       \/ /\ out = "EOS"
          /\ UNCHANGED <<leaked, stats>>
          /\ AfterOutput(0)
       \/ /\ out = "RENDER_OK"
          /\ stats' = [stats EXCEPT !.decodedFrames = @ + 1]
          /\ UNCHANGED leaked
          /\ AfterOutput(1)
       \/ /\ out = "RENDER_FAIL"
          /\ stats' = [stats EXCEPT !.decodedFrames = @ + 1]
          /\ UNCHANGED leaked
          /\ AfterOutput(0)
    /\ UNCHANGED <<pipelineVars, pendingFrameQueue, inputIndexQueue, net, ctl,
                   frameCount, engineVars, unsupportedSeen, accepted, env,
                   locks, statsGuard, ledgerVars, timingVars, render>>

\* pendingFrameCond_.wait_for returns (notified or after 4 ms)
WorkerWake ==
    /\ wrk.pc = "wait"
    /\ wrk' = [wrk EXCEPT !.pc = "loop"]
    /\ UNCHANGED <<pipelineVars, pendingFrameQueue, inputIndexQueue, stats,
                   syncDecodeThread, net, ctl, frameCount, engineVars, leaked,
                   unsupportedSeen, accepted, faults, env, locks, statsGuard,
                   ledgerVars, timingVars, render>>

\* ------------------------------------------------------------------------
\* TimestampLedger: timestampToEnqueueTime_, touched only inside blocks that
\* hold timestampMutex_ and never read by the control flow of the pipeline.
\* The blocks are modelled as actions of their own.
\* ------------------------------------------------------------------------

\* VideoDecoderInstance::SubmitDecodeUnit: timestamp from the frame number
FrameTimestamp(frameNumber) == (frameNumber * 1000000) \div 60

SetMin(S) == CHOOSE x \in S : \A y \in S : x <= y
SetMax(S) == CHOOSE x \in S : \A y \in S : x >= y

\* timestampToEnqueueTime_.begin(): the iteration order of an unordered_map
\* is unspecified, so begin() may designate any entry; the model takes the
\* entries with the smallest and with the largest key
BeginChoices(m) == {SetMin(m), SetMax(m)}

\* if (timestampToEnqueueTime_.size() > kMaxTimestampMapSize)
LedgerOverBroken(m) == Cardinality(m) > kMaxTimestampMapSize + 1
LedgerOver(m) == Cardinality(m) > kMaxTimestampMapSize

\* the block of a submit path: timestampToEnqueueTime_[timestamp] = now, then
\* erase(begin()) when the map is over its size.  again: the direct-submit
\* loop records the same frame once more after a failed push.
RecordTimestamp(again) ==
    /\ running
    /\ IF again
       THEN frameCount > 0 /\ UNCHANGED frameCount
       ELSE frameCount < env.frameLimit /\ frameCount' = frameCount + 1
    /\ LET ts == FrameTimestamp(IF again THEN frameCount ELSE frameCount + 1)
           inserted == timestampToEnqueueTime \cup {ts}
       IN  IF LedgerOver(inserted)
           THEN \E victim \in BeginChoices(inserted) :
                   timestampToEnqueueTime' = inserted \ {victim}
           ELSE timestampToEnqueueTime' = inserted
    /\ UNCHANGED <<pipelineVars, pendingFrameQueue, inputIndexQueue, stats,
                   syncDecodeThread, net, wrk, ctl, engineVars, leaked,
                   unsupportedSeen, accepted, faults, env, locks, statsGuard,
                   timingVars, render>>

\* pts an output buffer may carry: of the oldest or newest recorded frame,
\* or one that is not recorded
PtsChoices(m) == (IF m = {} THEN {} ELSE BeginChoices(m)) \cup {FrameTimestamp(0)}

\* the block of an output path (OnOutputBufferAvailable, SyncProcessOutput):
\* find(pts) and erase the entry when it exists
TakeTimestamp(pts) ==
    /\ running
    /\ frameCount >= env.quietFrames
    /\ outCount < MaxLedgerOutputs
    /\ outCount' = outCount + 1
    /\ timestampToEnqueueTime' = timestampToEnqueueTime \ {pts}
    /\ UNCHANGED <<pipelineVars, pendingFrameQueue, inputIndexQueue, stats,
                   syncDecodeThread, net, wrk, ctl, frameCount, pushed,
                   handleCount, leaked, unsupportedSeen, accepted, faults,
                   env, locks, statsGuard, timingVars, render>>

\* ------------------------------------------------------------------------
\* double arithmetic of the decode-latency average.  A natural number of
\* any size is a sequence of limbs in base 2^15, least significant first,
\* without leading zero limbs (zero is <<>>).  A non-negative double is
\* [m, e], the value m * 2^e with m odd, or m = <<>> and e = 0 for 0.0.
\* Results are rounded to 53 significant bits, to nearest, ties to even.
\* ------------------------------------------------------------------------
kLimb == 32768
kMantissaBits == 53

RECURSIVE BTrim(_)
BTrim(x) ==
    IF x = <<>> THEN x
    ELSE IF x[Len(x)] = 0 THEN BTrim(SubSeq(x, 1, Len(x) - 1)) ELSE x

Limb(x, i) == IF i <= Len(x) THEN x[i] ELSE 0

RECURSIVE BFromInt(_)
BFromInt(n) == IF n = 0 THEN <<>> ELSE <<n % kLimb>> \o BFromInt(n \div kLimb)

RECURSIVE BAddFrom(_, _, _, _)
BAddFrom(x, y, i, carry) ==
    IF i > Len(x) /\ i > Len(y)
    THEN IF carry = 0 THEN <<>> ELSE <<carry>>
    ELSE LET sum == Limb(x, i) + Limb(y, i) + carry IN
         <<sum % kLimb>> \o BAddFrom(x, y, i + 1, sum \div kLimb)

BAdd(x, y) == BAddFrom(x, y, 1, 0)

\* x - y for x >= y
RECURSIVE BSubFrom(_, _, _, _)
BSubFrom(x, y, i, borrow) ==
    IF i > Len(x) THEN <<>>
    ELSE LET diff == x[i] - Limb(y, i) - borrow IN
         <<IF diff < 0 THEN diff + kLimb ELSE diff>>
             \o BSubFrom(x, y, i + 1, IF diff < 0 THEN 1 ELSE 0)

BSub(x, y) == BTrim(BSubFrom(x, y, 1, 0))

\* x * k for 0 <= k < 2^15
RECURSIVE BMulSmallFrom(_, _, _, _)
BMulSmallFrom(x, k, i, carry) ==
    IF i > Len(x) THEN IF carry = 0 THEN <<>> ELSE <<carry>>
    ELSE LET prod == x[i] * k + carry IN
         <<prod % kLimb>> \o BMulSmallFrom(x, k, i + 1, prod \div kLimb)

BMulSmall(x, k) == BTrim(BMulSmallFrom(x, k, 1, 0))

\* x * 2^(15 n)
BShiftLimbs(x, n) == IF x = <<>> THEN x ELSE [i \in 1..n |-> 0] \o x

RECURSIVE BMulFrom(_, _, _)
BMulFrom(x, y, i) ==
    IF i > Len(y) THEN <<>>
    ELSE BAdd(BShiftLimbs(BMulSmall(x, y[i]), i - 1), BMulFrom(x, y, i + 1))

BMul(x, y) == BMulFrom(x, y, 1)

\* x \div k for 0 < k < 2^15, from the most significant limb down
RECURSIVE BDivSmallFrom(_, _, _, _)
BDivSmallFrom(x, k, i, rem) ==
    IF i = 0 THEN <<>>
    ELSE LET t == rem * kLimb + x[i] IN
         BDivSmallFrom(x, k, i - 1, t % k) \o <<t \div k>>

BDivSmall(x, k) == BTrim(BDivSmallFrom(x, k, Len(x), 0))

\* x * 2^s and x \div 2^s
BShl(x, s) == BShiftLimbs(BMulSmall(x, 2 ^ (s % 15)), s \div 15)
BShr(x, s) ==
    IF s \div 15 >= Len(x) THEN <<>>
    ELSE BDivSmall(SubSeq(x, s \div 15 + 1, Len(x)), 2 ^ (s % 15))

BBitLen(x) ==
    IF x = <<>> THEN 0
    ELSE 15 * (Len(x) - 1)
         + (CHOOSE k \in 1..15 : 2 ^ (k - 1) <= x[Len(x)] /\ x[Len(x)] < 2 ^ k)

RECURSIVE BLessFrom(_, _, _)
BLessFrom(x, y, i) ==
    IF i = 0 THEN FALSE
    ELSE IF x[i] # y[i] THEN x[i] < y[i]
    ELSE BLessFrom(x, y, i - 1)

BLess(x, y) ==
    IF Len(x) # Len(y) THEN Len(x) < Len(y) ELSE BLessFrom(x, y, Len(x))

BOdd(x) == x # <<>> /\ x[1] % 2 = 1

RECURSIVE BTrailingZeros(_)
BTrailingZeros(x) ==
    IF x = <<>> \/ BOdd(x) THEN 0 ELSE 1 + BTrailingZeros(BShr(x, 1))

\* the double m * 2^e for m of at most 53 bits
DExact(m, e) ==
    IF m = <<>> THEN [m |-> <<>>, e |-> 0]
    ELSE LET z == BTrailingZeros(m) IN [m |-> BShr(m, z), e |-> e + z]

\* the double nearest to m * 2^e, ties to even
DRound(m, e) ==
    LET s == BBitLen(m) - kMantissaBits IN
    IF s <= 0 THEN DExact(m, e)
    ELSE LET q == BShr(m, s)
             r == BSub(m, BShl(q, s))
             half == BShl(<<1>>, s - 1)
             up == BLess(half, r) \/ (r = half /\ BOdd(q))
         IN  DExact(IF up THEN BAdd(q, <<1>>) ELSE q, e + s)

\* static_cast<double>(n) for 0 <= n < 2^31
DFromInt(n) == DExact(BFromInt(n), 0)

\* x and y as integers on the common scale 2^MinExp(x, y)
MinExp(x, y) == IF x.e < y.e THEN x.e ELSE y.e
Scaled(x, e) == BShl(x.m, x.e - e)

\* the exact product, sum and difference (x >= y) as [m, e] before rounding
XMul(x, y) == [m |-> BMul(x.m, y.m), e |-> x.e + y.e]
XAdd(x, y) ==
    LET e == MinExp(x, y) IN [m |-> BAdd(Scaled(x, e), Scaled(y, e)), e |-> e]
XSub(x, y) ==
    LET e == MinExp(x, y) IN [m |-> BSub(Scaled(x, e), Scaled(y, e)), e |-> e]

DLess(x, y) == LET e == MinExp(x, y) IN BLess(Scaled(x, e), Scaled(y, e))

Rounded(x) == DRound(x.m, x.e)
DMul(x, y) == Rounded(XMul(x, y))
DAdd(x, y) == Rounded(XAdd(x, y))
DSub(x, y) == Rounded(XSub(x, y))

\* ------------------------------------------------------------------------
\* Statistics timing: the window baselines, rates and decode latency that
\* UpdateReceivedStats and UpdateDecodedStats keep in stats_ under
\* statsMutex_.  The pipeline actions above leave them aside; the actions
\* below are the same calls seen with the clock.
\* ------------------------------------------------------------------------
\* UpdateReceivedStats after totalFrames++ and totalBytesReceived += size:
\* s is stats_ after the two additions, now is currentTimeMs
DecodedBaselineBroken(s) == s.totalFrames
DecodedBaseline(s) == s.decodedFrames

ReceivedTiming(t, s, now) ==
    IF t.lastFpsCalculationTime = 0
    THEN [t EXCEPT !.lastFpsCalculationTime = now,
                   !.lastFrameCount = s.totalFrames,
                   !.lastDecodedFrameCount = DecodedBaseline(s),
                   !.lastBytesCount = s.totalBytesReceived]
    ELSE IF now - t.lastFpsCalculationTime >= kStatsUpdateIntervalMs
    THEN LET elapsedMs == now - t.lastFpsCalculationTime IN
         [t EXCEPT !.currentFps =
                       Ratio((s.totalFrames - t.lastFrameCount) * 1000,
                             elapsedMs),
                   !.lastFrameCount = s.totalFrames,
                   !.renderedFps =
                       Ratio((s.decodedFrames - t.lastDecodedFrameCount) * 1000,
                             elapsedMs),
                   !.lastDecodedFrameCount = s.decodedFrames,
                   !.lastFpsCalculationTime = now,
                   !.currentBitrate =
                       Ratio((s.totalBytesReceived - t.lastBytesCount) * 8 * 1000,
                             elapsedMs),
                   !.lastBytesCount = s.totalBytesReceived]
    ELSE t

\* how the compiler may contract a * b + c * d: not at all, or into a fused
\* multiply-add that leaves the first or the second product unrounded
FpContracts == {"off", "first", "second"}

\* alpha * decodeTimeMs + (1.0 - alpha) * averageDecodeTimeMs
Ema(contract, alpha, decodeTimeMs, avg) ==
    LET sample == DFromInt(decodeTimeMs)
        beta == DSub(DOne, alpha)
    IN  IF contract = "first"
        THEN Rounded(XAdd(XMul(alpha, sample), DMul(beta, avg)))
        ELSE IF contract = "second"
        THEN Rounded(XAdd(DMul(alpha, sample), XMul(beta, avg)))
        ELSE DAdd(DMul(alpha, sample), DMul(beta, avg))

EmaAlphaBroken(isKeyframe) == kEmaAlphaNormal
EmaAlpha(isKeyframe) ==
    IF isKeyframe THEN kEmaAlphaKeyframe ELSE kEmaAlphaNormal

\* UpdateDecodedStats uses the decode time now - enqueueTimeMs as a sample:
\* an enqueue time was found and the decode time lies in [0, 1000) ms
SampleTakenBroken(now, enqueueTimeMs) ==
    enqueueTimeMs > 0 /\ now - enqueueTimeMs >= 0
SampleTaken(now, enqueueTimeMs) ==
    /\ enqueueTimeMs > 0
    /\ now - enqueueTimeMs >= 0
    /\ now - enqueueTimeMs < kMaxValidDecodeTimeMs

\* UpdateDecodedStats after decodedFrames++: s is stats_ after the addition
DecodedTiming(t, s, now, enqueueTimeMs, isKeyframe, contract) ==
    LET decodeTimeMs == now - enqueueTimeMs IN
    IF SampleTaken(now, enqueueTimeMs)
    THEN [t EXCEPT !.averageDecodeTimeMs =
                       IF s.decodedFrames = 1
                       THEN DFromInt(decodeTimeMs)
                       ELSE Ema(contract, EmaAlpha(isKeyframe),
                                decodeTimeMs, @),
                   !.maxDecodeTimeMs =
                       IF decodeTimeMs > @ THEN decodeTimeMs ELSE @]
    ELSE t

\* decode times the engine takes, in milliseconds
SampleAges == {0, 12, 15, kTickMs}

\* the steady clock advances
Tick ==
    /\ steadyClock < kTickMs * MaxTicks
    /\ steadyClock' = steadyClock + kTickMs
    /\ UNCHANGED <<pipelineVars, pendingFrameQueue, inputIndexQueue, stats,
                   syncDecodeThread, net, wrk, ctl, frameCount, engineVars,
                   leaked, unsupportedSeen, accepted, faults, env, locks,
                   statsGuard, ledgerVars, statsTiming, render>>

\* a frame is accepted by SubmitDecodeUnit: UpdateReceivedStats
ReceiveFrame ==
    /\ running /\ decoder
    /\ frameCount < env.frameLimit
    /\ frameCount' = frameCount + 1
    /\ stats' = UpdateReceivedStats(stats, FrameSize(frameCount + 1))
    /\ statsTiming' = ReceivedTiming(statsTiming, stats', steadyClock)
    /\ UNCHANGED <<pipelineVars, pendingFrameQueue, inputIndexQueue,
                   syncDecodeThread, net, wrk, ctl, engineVars, leaked,
                   unsupportedSeen, accepted, faults, env, locks, statsGuard,
                   ledgerVars, steadyClock, render>>

\* an output buffer arrives: UpdateDecodedStats with the enqueue time found
\* in the TimestampLedger, age milliseconds ago (enqueueTimeMs is 0 when
\* none was found)
DecodeFrame(found, age, isKeyframe) ==
    /\ running /\ decoder
    /\ stats.decodedFrames < stats.totalFrames
    /\ stats' = [stats EXCEPT !.decodedFrames = @ + 1]
    /\ LET enqueueTimeMs == IF found THEN steadyClock - age ELSE 0 IN
       /\ statsTiming' = DecodedTiming(statsTiming, stats', steadyClock,
                                       enqueueTimeMs, isKeyframe,
                                       env.fpContract)
       /\ accepted' = LET seen == [accepted EXCEPT
                                      !.entry = found,
                                      !.stamped = enqueueTimeMs > 0,
                                      !.decodeTimeMs =
                                          IF enqueueTimeMs > 0
                                          THEN steadyClock - enqueueTimeMs
                                          ELSE 0]
                      IN  IF SampleTaken(steadyClock, enqueueTimeMs)
                          THEN [seen EXCEPT !.samples = @ + 1,
                                            !.sample = age,
                                            !.keyframe = isKeyframe]
                          ELSE seen
    /\ UNCHANGED <<pipelineVars, pendingFrameQueue, inputIndexQueue,
                   syncDecodeThread, net, wrk, ctl, frameCount, engineVars,
                   leaked, unsupportedSeen, faults, env, locks, statsGuard,
                   ledgerVars, steadyClock, render>>

\* VideoDecoder::Cleanup while no decode worker is running, so that the
\* Stop() it starts with has nothing to join: running_ = false, the engine
\* is stopped and destroyed, the queues and the TimestampLedger are
\* cleared, configured_ = false.  stats_ is not touched.
Cleanup ==
    /\ ctl.pc = "idle"
    /\ ctl.last \in {"Init", "Start", "StartFailed", "Stop"}
    /\ ~syncDecodeRunning
    /\ net.pc = "idle"
    /\ running' = FALSE
    /\ decoder' = FALSE
    /\ configured' = FALSE
    /\ inputIndexQueue' = <<>>
    /\ pendingFrameQueue' = <<>>
    /\ timestampToEnqueueTime' = {}
    /\ ctl' = [ctl EXCEPT !.last = "Cleanup"]
    /\ UNCHANGED <<syncDecodeRunning, decoderMode, maxPendingFrames, stats,
                   syncDecodeThread, net, wrk, frameCount, engineVars, leaked,
                   unsupportedSeen, accepted, faults, env, locks, statsGuard,
                   timingVars, render>>

\* ------------------------------------------------------------------------
\* NativeRender: the Presentation Clock (VSync mode)
\* ------------------------------------------------------------------------
pipelineState == <<decoder, configured, running, syncDecodeRunning,
                   decoderMode, maxPendingFrames, pendingFrameQueue,
                   inputIndexQueue, stats, syncDecodeThread, net, wrk, ctl,
                   frameCount, handleCount, pushed, outCount, leaked,
                   unsupportedSeen, accepted, faults, env, locks, statsGuard,
                   timestampToEnqueueTime, statsTiming, steadyClock>>

FpsChoices == {0, 60, 120}

\* NativeRender::SetConfiguredFps
SetConfiguredFps(fps) ==
    /\ ~render.crashed
    /\ render' = [render EXCEPT !.configuredFps = fps,
                                !.timeBaseInitialized = FALSE]
    /\ UNCHANGED pipelineState

\* CLOCK_MONOTONIC advances by kClockStepNs
ClockAdvance ==
    /\ ~render.crashed
    /\ render.nowNs < kClockStepNs * MaxClockSteps
    /\ render' = [render EXCEPT !.nowNs = @ + kClockStepNs]
    /\ UNCHANGED pipelineState

\* baseSystemTimeNs_ after a late frame: targetPresentTimeNs - ptsDeltaNs
ReanchoredBaseBroken(targetPresentTimeNs, ptsDeltaNs) == targetPresentTimeNs
ReanchoredBase(targetPresentTimeNs, ptsDeltaNs) ==
    targetPresentTimeNs - ptsDeltaNs

\* ptsDeltaNs: the pts offset from the base, microseconds to nanoseconds
PtsDeltaNsBroken(pts, basePtsUs) == pts - basePtsUs
PtsDeltaNs(pts, basePtsUs) == (pts - basePtsUs) * 1000

\* targetPresentTimeNs = baseSystemTimeNs_ + ptsDeltaNs
TargetPresentTimeNsBroken(baseNs, ptsDeltaNs) == baseNs
TargetPresentTimeNs(baseNs, ptsDeltaNs) == baseNs + ptsDeltaNs

\* pts values the renderer is asked about: those of
\* VideoDecoderInstance::SubmitDecodeUnit at 60 fps and a 16000 us grid
RenderPts ==
    {FrameTimestamp(n) : n \in 0..MaxRenderFrames}
        \cup {kPtsStepUs * n : n \in 0..MaxRenderFrames}

\* NativeRender::CalculatePresentTime(pts) on the renderer r: r afterwards
Presented(r, pts) ==
    LET nowNs == r.nowNs
        anchored == r.timeBaseInitialized
        baseNs == IF anchored THEN r.baseSystemTimeNs ELSE nowNs
        basePts == IF anchored THEN r.basePtsUs ELSE pts
        ptsDeltaNs == PtsDeltaNs(pts, basePts)
        target == TargetPresentTimeNs(baseNs, ptsDeltaNs)
    IN  IF target >= nowNs
        THEN [r EXCEPT !.timeBaseInitialized = TRUE,
                       !.baseSystemTimeNs = baseNs,
                       !.basePtsUs = basePts,
                       !.pts = pts, !.ret = target,
                       !.calls = @ + 1, !.late = FALSE]
        ELSE IF r.configuredFps = 0
        THEN [r EXCEPT !.pts = pts, !.calls = @ + 1, !.crashed = TRUE]
        ELSE LET frameIntervalNs == 1000000000 \div r.configuredFps
                 late == nowNs + frameIntervalNs \div 2
             IN  [r EXCEPT !.baseSystemTimeNs =
                               ReanchoredBase(late, ptsDeltaNs),
                           !.pts = pts, !.ret = late,
                           !.calls = @ + 1, !.late = TRUE]

\* a CalculatePresentTime call seen on its own
CalculatePresentTime(pts) ==
    /\ ~render.crashed
    /\ render.calls < MaxRenderCalls
    /\ render' = Presented(render, pts)
    /\ UNCHANGED pipelineState

\* ------------------------------------------------------------------------
\* Specification
\* ------------------------------------------------------------------------
Next ==
    \/ \E mode \in {"SYNC", "ASYNC"}, bufferCount \in 0..MaxBufferCount,
          syncKey \in BOOLEAN, failAt \in InitSteps \cup {"none"} :
          DecoderInit(mode, bufferCount, syncKey, failAt)
    \/ \E startOk \in BOOLEAN : Start(startOk)
    \/ StopBegin
    \/ StopJoin
    \/ StopClear
    \/ InstanceDiscard
    \/ SubmitBegin
    \/ SyncAttempt
    \/ SyncEnqueue
    \/ AsyncLock
    \/ AsyncWaitTimeout
    \/ AsyncWaitWake
    \/ AsyncSubmit
    \/ OnInputBufferAvailable
    \/ WorkerLoop
    \/ WorkerBatch
    \/ \E res \in InputResults : WorkerQuery(res)
    \/ WorkerTake
    \/ WorkerSubmit
    \/ \E res \in OutputResults : WorkerOutput(res)
    \/ \E out \in RenderResults : WorkerRender(out)
    \/ WorkerWake

Spec == Init /\ [][Next]_vars

\* start-up runs: any engine call of Init or Start may fail, the engine
\* calls of the running pipeline do not
InitStartup ==
    /\ Constructed
    /\ env = [frameLimit |-> MaxFramesStartup, faultLimit |-> 0,
              outputBroken |-> FALSE, inputBusy |-> FALSE]

SpecStartup == InitStartup /\ [][Next]_vars

\* the same runs with Cleanup and a new Init after it: a frame may arrive
\* before Start, while running, after Stop and after Cleanup
NextLifecycle ==
    \/ \E mode \in {"SYNC", "ASYNC"} : DecoderInit(mode, 0, TRUE, "none")
    \/ \E startOk \in BOOLEAN : Start(startOk)
    \/ StopBegin
    \/ StopJoin
    \/ StopClear
    \/ Cleanup
    \/ SubmitBegin
    \/ SyncAttempt
    \/ SyncEnqueue
    \/ AsyncLock
    \/ AsyncWaitTimeout
    \/ AsyncWaitWake
    \/ AsyncSubmit
    \/ OnInputBufferAvailable
    \/ WorkerLoop
    \/ WorkerBatch
    \/ \E res \in InputResults : WorkerQuery(res)
    \/ WorkerTake
    \/ WorkerSubmit
    \/ \E res \in OutputResults : WorkerOutput(res)
    \/ \E out \in RenderResults : WorkerRender(out)
    \/ WorkerWake

SpecLifecycle == InitStartup /\ [][NextLifecycle]_vars

\* synchronous pipeline on an engine whose output side keeps failing
NextFatal ==
    \/ \E bufferCount \in 0..MaxBufferCount :
          DecoderInit("SYNC", bufferCount, TRUE, "none")
    \/ Start(TRUE)
    \/ StopBegin
    \/ StopJoin
    \/ StopClear
    \/ SubmitBegin
    \/ SyncAttempt
    \/ SyncEnqueue
    \/ WorkerLoop
    \/ WorkerBatch
    \/ \E res \in InputResults : WorkerQuery(res)
    \/ WorkerTake
    \/ WorkerSubmit
    \/ \E res \in OutputResults : WorkerOutput(res)
    \/ WorkerRender("RENDER_OK")
    \/ WorkerWake

SpecFatal == InitFatal /\ [][NextFatal]_vars

\* asynchronous pipeline: an engine without OH_MD_KEY_ENABLE_SYNC_MODE, on
\* which Init always ends in callback mode and no worker thread exists
NextAsync ==
    \/ \E mode \in {"SYNC", "ASYNC"}, bufferCount \in 0..MaxBufferCount,
          failAt \in InitSteps \cup {"none"} :
          DecoderInit(mode, bufferCount, FALSE, failAt)
    \/ \E startOk \in BOOLEAN : Start(startOk)
    \/ StopBegin
    \/ StopClear
    \/ SubmitBegin
    \/ AsyncLock
    \/ AsyncWaitTimeout
    \/ AsyncWaitWake
    \/ AsyncSubmit
    \/ OnInputBufferAvailable

SpecAsync == Init /\ [][NextAsync]_vars

\* a started synchronous pipeline on an engine whose input side is always
\* busy; frames arrive once Start has returned
NextBusy ==
    \/ \E bufferCount \in 0..MaxBufferCount :
          DecoderInit("SYNC", bufferCount, TRUE, "none")
    \/ Start(TRUE)
    \/ (ctl.last = "Start" /\ SubmitBegin)
    \/ SyncAttempt
    \/ SyncEnqueue
    \/ WorkerLoop
    \/ WorkerBatch
    \/ \E res \in InputResults : WorkerQuery(res)
    \/ \E res \in OutputResults : WorkerOutput(res)
    \/ WorkerWake

SpecBusy == InitBusy /\ [][NextBusy]_vars

\* long runs of a started pipeline seen from the TimestampLedger: the engine
\* delivers no output for the first quietFrames frames, later outputs are
\* missing or out of order
InitLedger ==
    /\ Constructed
    /\ env = [frameLimit |-> kMaxTimestampMapSize + MaxLedgerFrames,
              faultLimit |-> 0, outputBroken |-> FALSE, inputBusy |-> FALSE,
              quietFrames |-> kMaxTimestampMapSize - MaxLedgerFrames]

NextLedger ==
    \/ \E mode \in {"SYNC", "ASYNC"} : DecoderInit(mode, 0, TRUE, "none")
    \/ Start(TRUE)
    \/ \E again \in BOOLEAN : RecordTimestamp(again)
    \/ \E pts \in PtsChoices(timestampToEnqueueTime) : TakeTimestamp(pts)

SpecLedger == InitLedger /\ [][NextLedger]_vars

\* sessions of one callback-mode pipeline object: Init, Start, frames in
\* and out while the clock runs, Cleanup, and Init again
InitSession ==
    /\ Constructed
    /\ \E contract \in FpContracts :
          env = [frameLimit |-> MaxSessionFrames, faultLimit |-> 0,
                 outputBroken |-> FALSE, inputBusy |-> FALSE,
                 fpContract |-> contract]

NextSession ==
    \/ \E failAt \in {"none", "configure"} :
          DecoderInit("ASYNC", 0, TRUE, failAt)
    \/ \E startOk \in BOOLEAN : Start(startOk)
    \/ Tick
    \/ ReceiveFrame
    \/ \E found \in BOOLEAN, isKeyframe \in BOOLEAN :
          DecodeFrame(found, 12, isKeyframe)
    \/ OnInputBufferAvailable
    \/ RecordTimestamp(FALSE)
    \/ Cleanup

SpecSession == InitSession /\ [][NextSession]_vars

\* the decode-latency statistics alone: a started pipeline, frames received
\* and decoded with or without a usable enqueue time, for each way the
\* build may round the average
InitLatency ==
    /\ Constructed
    /\ \E contract \in FpContracts :
          env = [frameLimit |-> MaxLatencyFrames, faultLimit |-> 0,
                 outputBroken |-> FALSE, inputBusy |-> FALSE,
                 fpContract |-> contract]

NextLatency ==
    \/ DecoderInit("ASYNC", 0, TRUE, "none")
    \/ Start(TRUE)
    \/ ReceiveFrame
    \/ \E found \in BOOLEAN, age \in SampleAges, isKeyframe \in BOOLEAN :
          DecodeFrame(found, age, isKeyframe)

SpecLatency == InitLatency /\ [][NextLatency]_vars

\* the rate statistics of a synchronous pipeline: frames received and
\* decoded while the clock runs.  In a lockstep run the output of each frame
\* is polled (UpdateDecodedStats) before the next frame is submitted.
InitSteady ==
    /\ Constructed
    /\ \E lockstep \in BOOLEAN :
          env = [frameLimit |-> MaxSteadyFrames, faultLimit |-> 0,
                 outputBroken |-> FALSE, inputBusy |-> FALSE,
                 fpContract |-> "off", lockstep |-> lockstep]

SteadyReceiveFrame ==
    /\ env.lockstep => stats.decodedFrames = stats.totalFrames
    /\ ReceiveFrame

NextSteady ==
    \/ DecoderInit("SYNC", 0, TRUE, "none")
    \/ Start(TRUE)
    \/ Tick
    \/ SteadyReceiveFrame
    \/ \E found \in BOOLEAN : DecodeFrame(found, 12, FALSE)

SpecSteady == InitSteady /\ [][NextSteady]_vars

\* ------------------------------------------------------------------------
\* stats_ and statsMutex_: the critical sections of UpdateReceivedStats,
\* UpdateDecodedStats, the droppedFrames++ of SubmitDecodeUnit and GetStats,
\* one memory access group per step
\* ------------------------------------------------------------------------
\* std::lock_guard<std::mutex>(statsMutex_) can be taken
MutexFreeBroken(owner) == TRUE
MutexFree(owner) == owner = "none"

\* the critical section a thread enters
StatsSections ==
    [net |-> {"totalFrames", "droppedFrames"}, out |-> {"decodedFrames"},
     app |-> {"copy"}]

\* lock_guard constructor: thread t enters section
LockStats(t, section) ==
    /\ running /\ decoder
    /\ section \in StatsSections[t]
    /\ statsGuard.pos[t] = "idle"
    /\ MutexFree(statsGuard.owner)
    /\ section = "totalFrames" => frameCount < env.frameLimit
    /\ section = "droppedFrames" => stats.droppedFrames < stats.totalFrames
    /\ section = "decodedFrames" => stats.decodedFrames < stats.totalFrames
    /\ section = "copy" => statsGuard.reads < MaxGuardReads
    /\ statsGuard' = [statsGuard EXCEPT !.owner = t, !.pos[t] = section]
    /\ UNCHANGED <<pipelineVars, pendingFrameQueue, inputIndexQueue, stats,
                   syncDecodeThread, net, wrk, ctl, frameCount, engineVars,
                   leaked, unsupportedSeen, accepted, faults, env, locks,
                   ledgerVars, timingVars, render>>

\* UpdateReceivedStats: stats_.totalFrames++
ReceivedCount ==
    /\ statsGuard.pos["net"] = "totalFrames"
    /\ frameCount' = frameCount + 1
    /\ stats' = [stats EXCEPT !.totalFrames = @ + 1]
    /\ statsGuard' = [statsGuard EXCEPT !.pos["net"] = "totalBytesReceived"]
    /\ UNCHANGED <<pipelineVars, pendingFrameQueue, inputIndexQueue,
                   syncDecodeThread, net, wrk, ctl, engineVars, leaked,
                   unsupportedSeen, accepted, faults, env, locks, ledgerVars,
                   timingVars, render>>

\* UpdateReceivedStats: stats_.totalBytesReceived += size and the window
\* statistics
ReceivedBytes ==
    /\ statsGuard.pos["net"] = "totalBytesReceived"
    /\ stats' = [stats EXCEPT !.totalBytesReceived = @ + FrameSize(frameCount)]
    /\ statsTiming' = ReceivedTiming(statsTiming, stats', steadyClock)
    /\ statsGuard' = [statsGuard EXCEPT !.pos["net"] = "unlock"]
    /\ UNCHANGED <<pipelineVars, pendingFrameQueue, inputIndexQueue,
                   syncDecodeThread, net, wrk, ctl, frameCount, engineVars,
                   leaked, unsupportedSeen, accepted, faults, env, locks,
                   ledgerVars, steadyClock, render>>

\* SubmitDecodeUnit: stats_.droppedFrames++
DroppedCount ==
    /\ statsGuard.pos["net"] = "droppedFrames"
    /\ stats' = CountDropped(stats, 1)
    /\ statsGuard' = [statsGuard EXCEPT !.pos["net"] = "unlock"]
    /\ UNCHANGED <<pipelineVars, pendingFrameQueue, inputIndexQueue,
                   syncDecodeThread, net, wrk, ctl, frameCount, engineVars,
                   leaked, unsupportedSeen, accepted, faults, env, locks,
                   ledgerVars, timingVars, render>>

\* UpdateDecodedStats: stats_.decodedFrames++ and the decode latency, for
\* an output whose enqueue time was or was not found
DecodedCount(found) ==
    /\ statsGuard.pos["out"] = "decodedFrames"
    /\ stats' = [stats EXCEPT !.decodedFrames = @ + 1]
    /\ statsTiming' = DecodedTiming(statsTiming, stats', steadyClock,
                                    IF found THEN steadyClock - 12 ELSE 0,
                                    FALSE, env.fpContract)
    /\ statsGuard' = [statsGuard EXCEPT !.pos["out"] = "unlock"]
    /\ UNCHANGED <<pipelineVars, pendingFrameQueue, inputIndexQueue,
                   syncDecodeThread, net, wrk, ctl, frameCount, engineVars,
                   leaked, unsupportedSeen, accepted, faults, env, locks,
                   ledgerVars, steadyClock, render>>

\* GetStats: return stats_
GetStats ==
    /\ statsGuard.pos["app"] = "copy"
    /\ statsGuard' = [statsGuard EXCEPT
                         !.pos["app"] = "unlock",
                         !.reads = @ + 1,
                         !.snapshot = [counters |-> stats,
                                       timing |-> statsTiming]]
    /\ UNCHANGED <<pipelineVars, pendingFrameQueue, inputIndexQueue, stats,
                   syncDecodeThread, net, wrk, ctl, frameCount, engineVars,
                   leaked, unsupportedSeen, accepted, faults, env, locks,
                   ledgerVars, timingVars, render>>

\* lock_guard destructor
UnlockStats(t) ==
    /\ statsGuard.pos[t] = "unlock"
    /\ statsGuard' = [statsGuard EXCEPT !.owner = "none", !.pos[t] = "idle"]
    /\ UNCHANGED <<pipelineVars, pendingFrameQueue, inputIndexQueue, stats,
                   syncDecodeThread, net, wrk, ctl, frameCount, engineVars,
                   leaked, unsupportedSeen, accepted, faults, env, locks,
                   ledgerVars, timingVars, render>>

InitGuard ==
    /\ Constructed
    /\ env = [frameLimit |-> MaxGuardFrames, faultLimit |-> 0,
              outputBroken |-> FALSE, inputBusy |-> FALSE,
              fpContract |-> "off"]

NextGuard ==
    \/ \E mode \in {"SYNC", "ASYNC"} : DecoderInit(mode, 0, TRUE, "none")
    \/ Start(TRUE)
    \/ \E t \in StatsThreads : \E section \in StatsSections[t] :
          LockStats(t, section)
    \/ ReceivedCount
    \/ ReceivedBytes
    \/ DroppedCount
    \/ \E found \in BOOLEAN : DecodedCount(found)
    \/ GetStats
    \/ \E t \in StatsThreads : UnlockStats(t)

SpecGuard == InitGuard /\ [][NextGuard]_vars

\* a started synchronous pipeline: runs with enough frames for a full
\* worker batch and one frame more, and shorter runs in which engine calls
\* may fail
InitBatch ==
    /\ Constructed
    /\ env \in {[frameLimit |-> MaxBatchFrames, faultLimit |-> 0,
                  outputBroken |-> FALSE, inputBusy |-> FALSE],
                 [frameLimit |-> MaxFrames - 1, faultLimit |-> MaxFaults,
                  outputBroken |-> FALSE, inputBusy |-> FALSE]}

NextBatch ==
    \/ DecoderInit("SYNC", 0, TRUE, "none")
    \/ Start(TRUE)
    \/ (ctl.last = "Start" /\ SubmitBegin)
    \/ SyncAttempt
    \/ SyncEnqueue
    \/ WorkerLoop
    \/ WorkerBatch
    \/ \E res \in InputResults : WorkerQuery(res)
    \/ WorkerTake
    \/ WorkerSubmit
    \/ \E res \in OutputResults : WorkerOutput(res)
    \/ \E out \in RenderResults : WorkerRender(out)
    \/ WorkerWake

SpecBatch == InitBatch /\ [][NextBatch]_vars

\* a started synchronous pipeline whose worker is scheduled: the timed
\* wait on pendingFrameCond_ returns after 4 ms at the latest
InitIdle ==
    /\ Constructed
    /\ env = [frameLimit |-> MaxIdleFrames, faultLimit |-> MaxFaults,
              outputBroken |-> FALSE, inputBusy |-> FALSE]

SpecIdle == InitIdle /\ [][NextBatch]_vars /\ WF_vars(WorkerWake)

\* ------------------------------------------------------------------------
\* Output callback and render policy: VideoDecoder::OnOutputBufferAvailable
\* on the engine thread, NativeRender::SetVsyncEnabled on the application
\* thread.  vsyncEnabled_ is atomic, timeBaseInitialized_ is a plain
\* member written by both threads.
\* ------------------------------------------------------------------------
\* SetVsyncEnabled: bool wasEnabled = vsyncEnabled_.exchange(enable)
SetVsyncExchange(enable) ==
    /\ render.setter = "idle" /\ ~render.crashed
    /\ LET changed == render.vsyncEnabled # enable IN
       render' = [render EXCEPT
                     !.vsyncEnabled = enable,
                     !.setter = IF changed THEN "reset" ELSE "idle",
                     !.pendingAnchor = IF changed THEN TRUE ELSE @]
    /\ UNCHANGED pipelineState

\* SetVsyncEnabled: if (wasEnabled != enable) timeBaseInitialized_ = false
SetVsyncReset ==
    /\ render.setter = "reset"
    /\ render' = [render EXCEPT !.timeBaseInitialized = FALSE,
                                !.setter = "idle"]
    /\ UNCHANGED pipelineState

\* pts an output buffer carries
PresentPts == {FrameTimestamp(n) : n \in 0..MaxPresentFrames}

\* OnOutputBufferAvailable up to the load of vsyncEnabled_ (in SubmitFrame,
\* or IsVsyncEnabled on the fallback path): the TimestampLedger lookup and
\* UpdateDecodedStats
OutputBegin(pts, isKeyframe) ==
    /\ running /\ decoder /\ decoderMode = "ASYNC"
    /\ render.cb.pc = "idle" /\ ~render.crashed
    /\ render.outputs < MaxPresentOutputs
    /\ timestampToEnqueueTime' = timestampToEnqueueTime \ {pts}
    /\ stats' = [stats EXCEPT !.decodedFrames = @ + 1]
    /\ LET enqueueTimeMs == IF pts \in timestampToEnqueueTime
                            THEN steadyClock - 12 ELSE 0 IN
       /\ statsTiming' = DecodedTiming(statsTiming, stats', steadyClock,
                                       enqueueTimeMs, isKeyframe,
                                       env.fpContract)
       /\ accepted' = LET seen == [accepted EXCEPT
                                      !.entry =
                                          pts \in timestampToEnqueueTime,
                                      !.stamped = enqueueTimeMs > 0,
                                      !.decodeTimeMs =
                                          IF enqueueTimeMs > 0
                                          THEN steadyClock - enqueueTimeMs
                                          ELSE 0]
                      IN  IF SampleTaken(steadyClock, enqueueTimeMs)
                          THEN [seen EXCEPT !.samples = @ + 1,
                                            !.sample = 12,
                                            !.keyframe = isKeyframe]
                          ELSE seen
    /\ render' = [render EXCEPT
                     !.outputs = @ + 1,
                     !.cb = [pc |-> "render", pts |-> pts,
                             timed |-> render.vsyncEnabled,
                             sawChange |-> render.pendingAnchor]]
    /\ UNCHANGED <<pipelineVars, pendingFrameQueue, inputIndexQueue,
                   syncDecodeThread, net, wrk, ctl, frameCount, engineVars,
                   leaked, unsupportedSeen, faults, env, locks, statsGuard,
                   steadyClock>>

\* the render call of the callback: RenderOutputBufferAtTime at
\* CalculatePresentTime(pts) when the policy it loaded is on,
\* RenderOutputBuffer otherwise
OutputRender ==
    /\ render.cb.pc = "render"
    /\ render' = IF render.cb.timed
                 THEN [Presented(render, render.cb.pts) EXCEPT
                          !.timed = @ + 1, !.cb = CbIdle,
                          !.pendingAnchor = FALSE]
                 ELSE [render EXCEPT !.immediate = @ + 1, !.cb = CbIdle]
    /\ UNCHANGED pipelineState

InitPresent ==
    /\ Constructed
    /\ env = [frameLimit |-> MaxPresentFrames, faultLimit |-> 0,
              outputBroken |-> FALSE, inputBusy |-> FALSE,
              fpContract |-> "off"]

NextPresent ==
    \/ DecoderInit("ASYNC", 0, TRUE, "none")
    \/ Start(TRUE)
    \/ RecordTimestamp(FALSE)
    \/ \E enable \in BOOLEAN : SetVsyncExchange(enable)
    \/ SetVsyncReset
    \/ ClockAdvance
    \/ \E pts \in PresentPts, isKeyframe \in BOOLEAN :
          OutputBegin(pts, isKeyframe)
    \/ OutputRender

SpecPresent == InitPresent /\ [][NextPresent]_vars

\* ------------------------------------------------------------------------
\* The pipeline's mutexes: what each call locks and unlocks, in order
\* ------------------------------------------------------------------------
Acq(l) == [k |-> "acq", l |-> l]
Rel(l) == [k |-> "rel", l |-> l]
\* a std::lock_guard block with nothing locked inside it
Block(l) == <<Acq(l), Rel(l)>>
\* a std::unique_lock block around condition_variable::wait_for: the wait
\* unlocks the mutex and locks it again before it returns
BlockWithWait(l) == <<Acq(l), Rel(l), Acq(l), Rel(l)>>
\* the fallback block of SubmitDecodeUnit when it evicts a frame
FallbackBlock == <<Acq("pending"), Acq("stats"), Rel("stats"), Rel("pending")>>
\* the inputMutex_ block of SubmitDecodeUnit when wait_for times out
TimeoutBlock ==
    <<Acq("input"), Rel("input"), Acq("input"),
      Acq("stats"), Rel("stats"), Rel("input")>>

\* VideoDecoder::SubmitDecodeUnit, one call
SubmitPrograms ==
    { \* sync, direct submit: UpdateReceivedStats, ledger record
      Block("stats") \o Block("ledger"),
      \* sync, fallback without and with a failed push, without and with
      \* an eviction
      Block("stats") \o Block("pending"),
      Block("stats") \o Block("ledger") \o Block("pending"),
      Block("stats") \o FallbackBlock,
      Block("stats") \o Block("ledger") \o FallbackBlock,
      \* async: a handle at once or after a wait, then ledger record and
      \* UpdateReceivedStats; the early returns
      Block("input") \o Block("ledger") \o Block("stats"),
      BlockWithWait("input") \o Block("ledger") \o Block("stats"),
      Block("input"),
      BlockWithWait("input"),
      Block("input") \o Block("ledger"),
      TimeoutBlock }

\* VideoDecoder::SyncDecodeLoop, one piece of an iteration
LoopPrograms ==
    { Block("pending"),                     \* hasQueuedFrame
      \* SyncProcessInput: look at the queue, take the frame, ledger record
      Block("pending") \o Block("pending") \o Block("ledger"),
      Block("pending") \o Block("pending"),
      \* SyncProcessOutput: ledger lookup, UpdateDecodedStats
      Block("ledger") \o Block("stats"),
      BlockWithWait("pending") }            \* the idle wait

\* OnInputBufferAvailable; OnOutputBufferAvailable with UpdateDecodedStats
CallbackPrograms == {Block("input"), Block("ledger") \o Block("stats")}

\* VideoDecoder::GetStats
AppPrograms == {Block("stats")}

\* VideoDecoder::Stop: the flags are cleared and the worker is joined with
\* no mutex held, then the Fallback Queue is emptied
StopProgramBroken ==
    <<[k |-> "flag", l |-> "none"], Acq("pending"),
      [k |-> "join", l |-> "none"], Rel("pending")>>
StopProgram ==
    <<[k |-> "flag", l |-> "none"], [k |-> "join", l |-> "none"]>>
    \o Block("pending")

\* VideoDecoder::Cleanup: Stop, then the three queues are cleared
CleanupProgram ==
    StopProgram \o Block("input") \o Block("pending") \o Block("ledger")

Programs(t) ==
    CASE t = "net" -> SubmitPrograms
      [] t = "wrk" -> LoopPrograms
      [] t = "cb"  -> CallbackPrograms
      [] t = "app" -> AppPrograms
      [] t = "ctl" -> {StopProgram, CleanupProgram}

AllPrograms == UNION {Programs(t) : t \in LockThreads}

\* the thread that holds mutex l, "none" if it is unlocked
LockOwner(l) ==
    IF \E t \in LockThreads :
           \E i \in DOMAIN locks.stack[t] : locks.stack[t][i] = l
    THEN CHOOSE t \in LockThreads :
           \E i \in DOMAIN locks.stack[t] : locks.stack[t][i] = l
    ELSE "none"

lockFrame == <<decoder, configured, running, syncDecodeRunning, decoderMode,
               maxPendingFrames, pendingFrameQueue, inputIndexQueue, stats,
               syncDecodeThread, net, wrk, ctl, frameCount, handleCount,
               pushed, outCount, leaked, unsupportedSeen, accepted, faults,
               env, timestampToEnqueueTime, statsTiming, steadyClock, render,
               statsGuard>>

\* a thread enters one of its calls; the worker only while it has not
\* returned
LockBegin(t, program) ==
    /\ program \in Programs(t)
    /\ locks.todo[t] = <<>>
    /\ t = "wrk" => ~locks.exited
    /\ locks' = [locks EXCEPT !.todo[t] = program]
    /\ UNCHANGED lockFrame

\* std::mutex::lock returns
LockAcquire(t) ==
    /\ locks.todo[t] # <<>>
    /\ Head(locks.todo[t]).k = "acq"
    /\ MutexFree(LockOwner(Head(locks.todo[t]).l))
    /\ locks' = [locks EXCEPT
                    !.stack[t] = Append(@, Head(locks.todo[t]).l),
                    !.todo[t] = Tail(@)]
    /\ UNCHANGED lockFrame

\* std::mutex::unlock of the mutex taken last
LockRelease(t) ==
    /\ locks.todo[t] # <<>>
    /\ Head(locks.todo[t]).k = "rel"
    /\ locks' = [locks EXCEPT
                    !.stack[t] = SubSeq(@, 1, Len(@) - 1),
                    !.todo[t] = Tail(@)]
    /\ UNCHANGED lockFrame

\* Stop: running_ = false, syncDecodeRunning_ = false, notify_all
StopFlags ==
    /\ locks.todo["ctl"] # <<>>
    /\ Head(locks.todo["ctl"]).k = "flag"
    /\ locks' = [locks EXCEPT !.stopping = TRUE, !.todo["ctl"] = Tail(@)]
    /\ UNCHANGED lockFrame

\* SyncDecodeLoop sees the cleared flags at the top of its loop and returns
LoopReturns ==
    /\ locks.todo["wrk"] = <<>>
    /\ locks.stopping /\ ~locks.exited
    /\ locks' = [locks EXCEPT !.exited = TRUE]
    /\ UNCHANGED lockFrame

\* syncDecodeThread_.join() returns
JoinReturns ==
    /\ locks.todo["ctl"] # <<>>
    /\ Head(locks.todo["ctl"]).k = "join"
    /\ locks.exited
    /\ locks' = [locks EXCEPT !.todo["ctl"] = Tail(@)]
    /\ UNCHANGED lockFrame

NextLocks ==
    \/ \E t \in LockThreads, program \in AllPrograms : LockBegin(t, program)
    \/ \E t \in LockThreads : LockAcquire(t)
    \/ \E t \in LockThreads : LockRelease(t)
    \/ StopFlags
    \/ LoopReturns
    \/ JoinReturns

\* the object as constructed; no frame is delivered in these runs
InitLocks ==
    /\ Constructed
    /\ env = [frameLimit |-> 0, faultLimit |-> 0, outputBroken |-> FALSE,
              inputBusy |-> FALSE]

SpecLocks == InitLocks /\ [][NextLocks]_vars

\* a started synchronous pipeline that is never stopped, with a healthy
\* engine or with one whose output side fails.  The worker thread is
\* scheduled (each step it can take it eventually takes), and
\* OH_VideoDecoder_QueryInputBuffer, asked again and again, eventually
\* answers AV_ERR_OK.
InitDrain ==
    /\ Constructed
    /\ env \in {[frameLimit |-> MaxDrainFrames, faultLimit |-> 0,
                  outputBroken |-> FALSE, inputBusy |-> FALSE],
                 [frameLimit |-> MaxFramesFatal, faultLimit |-> 0,
                  outputBroken |-> TRUE, inputBusy |-> FALSE]}

WorkerScheduled ==
    /\ WF_vars(WorkerLoop)
    /\ WF_vars(WorkerBatch)
    /\ WF_vars(\E res \in InputResults : WorkerQuery(res))
    /\ WF_vars(WorkerTake)
    /\ WF_vars(WorkerSubmit)
    /\ WF_vars(\E res \in OutputResults : WorkerOutput(res))
    /\ WF_vars(\E out \in RenderResults : WorkerRender(out))
    /\ WF_vars(WorkerWake)

EngineGrants == SF_vars(WorkerQuery("OK"))

SpecDrain ==
    InitDrain /\ [][NextBatch]_vars /\ WorkerScheduled /\ EngineGrants

\* VideoDecoderInstance::Resume: VideoDecoder::Start on the existing
\* instance, whatever was called before.  startOk is the result of
\* OH_VideoDecoder_Start; an engine that is still started refuses.  In
\* synchronous mode `syncDecodeThread_ = std::thread(...)` creates the new
\* worker and then move-assigns it: onto a thread that is still joinable
\* that is std::terminate, recorded as "doubled".
Resume(startOk) ==
    /\ ctl.pc = "idle"
    /\ ctl.instance
    /\ ctl.last \in {"Start", "StartFailed", "Stop", "Resume"}
    /\ running => ~startOk
    /\ IF ~configured \/ ~decoder \/ ~startOk
       THEN /\ ctl' = [ctl EXCEPT !.last = "Resume", !.ret = -1]
            /\ UNCHANGED <<running, syncDecodeRunning, syncDecodeThread, wrk>>
       ELSE /\ running' = TRUE
            /\ IF decoderMode = "SYNC"
               THEN /\ syncDecodeRunning' = TRUE
                    /\ IF Joinable
                       THEN /\ syncDecodeThread' = "doubled"
                            /\ ctl' = [ctl EXCEPT !.pc = "terminated",
                                                  !.last = "Resume"]
                            /\ UNCHANGED wrk
                       ELSE /\ syncDecodeThread' = "running"
                            /\ wrk' = [WrkInit EXCEPT !.pc = "loop"]
                            /\ ctl' = [ctl EXCEPT !.last = "Resume",
                                                  !.ret = 0]
               ELSE /\ ctl' = [ctl EXCEPT !.last = "Resume", !.ret = 0]
                    /\ UNCHANGED <<syncDecodeRunning, syncDecodeThread,
                                   wrk>>
    /\ UNCHANGED <<decoder, configured, decoderMode, maxPendingFrames,
                   pendingFrameQueue, inputIndexQueue, stats, net, frameCount,
                   handleCount, pushed, outCount, leaked, unsupportedSeen,
                   accepted, faults, env, locks, statsGuard, ledgerVars,
                   timingVars, render>>

\* sessions that are stopped and resumed, with engine failures
InitResume ==
    /\ Constructed
    /\ env = [frameLimit |-> MaxResumeFrames, faultLimit |-> MaxFaults,
              outputBroken |-> FALSE, inputBusy |-> FALSE]

NextResume ==
    \/ NextLifecycle
    \/ \E startOk \in BOOLEAN : Resume(startOk)

SpecResume == InitResume /\ [][NextResume]_vars

\* VideoDecoderInstance::SubmitDecodeUnit: g_videoDecoder is read without
\* g_videoDecoderMutex; nullptr returns -1, otherwise the call goes into
\* VideoDecoder::SubmitDecodeUnit
InstanceSubmit ==
    IF ctl.instance
    THEN SubmitBegin
    ELSE /\ net.pc = "idle"
         /\ frameCount < env.frameLimit
         /\ frameCount' = frameCount + 1
         /\ net' = Return(-1, "no_instance")
         /\ UNCHANGED <<pipelineVars, pendingFrameQueue, inputIndexQueue,
                        stats, syncDecodeThread, wrk, ctl, engineVars, leaked,
                        unsupportedSeen, accepted, faults, env, locks,
                        statsGuard, ledgerVars, timingVars, render>>

\* VideoDecoderInstance::Cleanup under g_videoDecoderMutex, in a session
\* without a decode worker: delete g_videoDecoder runs
\* VideoDecoder::Cleanup (Stop, OH_VideoDecoder_Destroy, the queues and
\* the TimestampLedger cleared), then g_videoDecoder = nullptr.  The
\* network thread does not take g_videoDecoderMutex, so where it is does
\* not matter here.
InstanceCleanup ==
    /\ ctl.pc = "idle"
    /\ ctl.instance
    /\ ~syncDecodeRunning
    /\ running' = FALSE
    /\ decoder' = FALSE
    /\ configured' = FALSE
    /\ inputIndexQueue' = <<>>
    /\ pendingFrameQueue' = <<>>
    /\ timestampToEnqueueTime' = {}
    /\ ctl' = [ctl EXCEPT !.last = "deleted", !.instance = FALSE]
    /\ UNCHANGED <<syncDecodeRunning, decoderMode, maxPendingFrames, stats,
                   syncDecodeThread, net, wrk, frameCount, engineVars, leaked,
                   unsupportedSeen, accepted, faults, env, locks, statsGuard,
                   timingVars, render>>

\* an asynchronous session whose instance is deleted while frames arrive.
\* After the delete the network thread's steps read the fields the
\* destructor left behind, one of the outcomes of the use of a freed object.
InitTeardown ==
    /\ Constructed
    /\ env = [frameLimit |-> MaxTeardownFrames, faultLimit |-> MaxFaults,
              outputBroken |-> FALSE, inputBusy |-> FALSE]

NextTeardown ==
    \/ DecoderInit("ASYNC", 0, TRUE, "none")
    \/ Start(TRUE)
    \/ InstanceSubmit
    \/ AsyncLock
    \/ AsyncWaitTimeout
    \/ AsyncWaitWake
    \/ AsyncSubmit
    \/ OnInputBufferAvailable
    \/ InstanceCleanup

SpecTeardown == InitTeardown /\ [][NextTeardown]_vars

\* decode completions with and without a ledger entry whose enqueue time
\* lies before, at or after the valid range, while the clock runs
OutlierAges == {-1, 12, kMaxValidDecodeTimeMs - 1, kMaxValidDecodeTimeMs}

InitOutlier ==
    /\ Constructed
    /\ env = [frameLimit |-> MaxOutlierFrames, faultLimit |-> 0,
              outputBroken |-> FALSE, inputBusy |-> FALSE,
              fpContract |-> "off"]

NextOutlier ==
    \/ DecoderInit("ASYNC", 0, TRUE, "none")
    \/ Start(TRUE)
    \/ Tick
    \/ ReceiveFrame
    \/ \E found \in BOOLEAN, age \in OutlierAges, isKeyframe \in BOOLEAN :
          DecodeFrame(found, age, isKeyframe)

SpecOutlier == InitOutlier /\ [][NextOutlier]_vars

\* the renderer alone: frame-rate changes, the clock, and present-time
\* requests for the pts of frames 0..MaxRenderFrames in any order
InitRender ==
    /\ Constructed
    /\ env = [frameLimit |-> 0, faultLimit |-> 0,
              outputBroken |-> FALSE, inputBusy |-> FALSE]

NextRender ==
    \/ \E fps \in FpsChoices : SetConfiguredFps(fps)
    \/ ClockAdvance
    \/ \E pts \in RenderPts : CalculatePresentTime(pts)

SpecRender == InitRender /\ [][NextRender]_vars

\* ------------------------------------------------------------------------
\* Claims
\* ------------------------------------------------------------------------
Last(q) == q[Len(q)]

\* Claim C1: in synchronous mode the Fallback Queue never holds more than
\* maxPendingFrames entries, whatever the interleaving of SubmitDecodeUnit,
\* the worker's drains and Stop.
C1_QueueBounded == Len(pendingFrameQueue) <= maxPendingFrames

\* the queue is full after an eviction
C1_Witness ==
    /\ decoderMode = "SYNC"
    /\ Len(pendingFrameQueue) = maxPendingFrames
    /\ stats.droppedFrames > 0

\* Claim C2: every input or output slot handle the pipeline obtains is
\* pushed, rendered or freed, on every path: no path drops a handle.
C2_NoSlotLeak == leaked = {}

\* Claim C3: frames are handed to the engine in the order in which
\* SubmitDecodeUnit received them (frameNumbers of successful pushes increase).
C3_PushOrder ==
    \A i \in 1..Len(pushed) : \A j \in 1..Len(pushed) :
        i < j => pushed[i] < pushed[j]

InInputCall(pc) == pc \in {"query", "fill"}

\* Claim C4: the network thread and the decode worker are never inside the
\* engine's input interface (QueryInputBuffer / GetInputBuffer /
\* PushInputBuffer) at the same time.
C4_SingleSubmitter == ~(InInputCall(net.pc) /\ InInputCall(wrk.pc))

\* Claim C5: when Stop has returned, the decode worker thread (if one was
\* created) has terminated and has been joined.
C5_StopJoinsWorker ==
    (ctl.pc = "idle" /\ ctl.last = "Stop")
        => syncDecodeThread \in {"none", "joined"}

\* Claim C6: once the engine has answered "unsupported" to an input-slot
\* acquisition, the pipeline is in asynchronous mode and a SubmitDecodeUnit
\* call that starts afterwards is handled by the asynchronous path.
C6_UnsupportedSwitchesToAsync ==
    (net.pc # "idle" /\ net.afterUnsupported)
        => (decoderMode = "ASYNC" /\ net.mode = "async")

\* Claim C7: after the worker aborted on 50 consecutive output-polling
\* errors the pipeline is no longer Running (IsRunning() is false).
C7_AbortStopsPipeline == wrk.aborted => ~running

\* Claim C8: every SubmitDecodeUnit call made while Running adds 1 to
\* totalFrames and its size to totalBytesReceived, whichever path it takes
\* (checked whenever no call is in progress).
C8_EveryCallCounted ==
    net.pc = "idle"
        => /\ stats.totalFrames = accepted.calls
           /\ stats.totalBytesReceived = accepted.bytes

\* the step on which the asynchronous wait for an input-slot handle times out
TimeoutStep ==
    /\ net.pc = "async_wait" /\ net'.pc = "idle"
    /\ inputIndexQueue = <<>> /\ running

C10_BusyFallsBack ==
    [][(net.mode = "sync" /\ net.allBusy /\ net.pc = "enqueue"
        /\ net'.pc = "idle")
       => /\ net'.ret = 0
          /\ pendingFrameQueue' # <<>>
          /\ Last(pendingFrameQueue') = net.frame]_vars

\* a call has just returned 0 through the fallback behind an older queued
\* frame: nothing was pushed and no engine call failed, so every acquisition
\* of every call so far was answered busy
C10_Witness ==
    /\ decoderMode = "SYNC" /\ running
    /\ ctl.pc = "idle" /\ ctl.last = "Start"
    /\ net.pc = "idle" /\ net.ret = 0
    /\ pushed = <<>> /\ faults = 0 /\ leaked = {}
    /\ Len(pendingFrameQueue) >= 2
    /\ Last(pendingFrameQueue).frameNumber = frameCount

Min(a, b) == IF a < b THEN a ELSE b
Max(a, b) == IF a > b THEN a ELSE b

\* Claim C11: on a freshly started synchronous pipeline whose engine always
\* reports busy for input, once n SubmitDecodeUnit calls have returned the
\* Fallback Queue holds the min(n, maxPendingFrames) most recent frames in
\* arrival order, droppedFrames = max(0, n - maxPendingFrames) and
\* totalFrames = n.
C11_BusyRunKeepsNewest ==
    (ctl.last = "Start" /\ net.pc = "idle") =>
        LET n == frameCount
            k == Min(n, maxPendingFrames)
        IN  /\ Len(pendingFrameQueue) = k
            /\ \A i \in 1..k :
                  pendingFrameQueue[i] =
                      [frameNumber |-> n - k + i, size |-> FrameSize(n - k + i)]
            /\ stats.droppedFrames = Max(0, n - maxPendingFrames)
            /\ stats.totalFrames = n

\* more calls than the queue holds have returned, all answered busy
C11_Witness ==
    /\ env.inputBusy /\ ctl.last = "Start" /\ net.pc = "idle"
    /\ frameCount >= maxPendingFrames + 2
    /\ stats.droppedFrames >= 2
    /\ Len(pendingFrameQueue) = maxPendingFrames

\* the fallback block of SubmitDecodeUnit runs
EnqueueStep == net.pc = "enqueue" /\ net'.pc = "idle"

\* Claim C12: a push into a Fallback Queue that holds maxPendingFrames
\* entries removes exactly the head entry and adds 1 to droppedFrames; a push
\* into a queue with fewer entries removes nothing and leaves droppedFrames
\* unchanged.  In both cases the new frame becomes the last entry.
C12_PushEvictsOnlyOldest ==
    [][EnqueueStep =>
        IF Len(pendingFrameQueue) = maxPendingFrames
        THEN /\ pendingFrameQueue' = Append(Tail(pendingFrameQueue), net.frame)
             /\ stats'.droppedFrames = stats.droppedFrames + 1
        ELSE /\ Len(pendingFrameQueue) < maxPendingFrames
             /\ pendingFrameQueue' = Append(pendingFrameQueue, net.frame)
             /\ stats'.droppedFrames = stats.droppedFrames]_vars

\* a push has just evicted the head: the newest frame is last and the
\* frame that was second is now first
C12_Witness ==
    /\ decoderMode = "SYNC" /\ net.pc = "idle" /\ net.ret = 0
    /\ stats.droppedFrames = 1
    /\ Len(pendingFrameQueue) = maxPendingFrames
    /\ Last(pendingFrameQueue).frameNumber = frameCount
    /\ Head(pendingFrameQueue).frameNumber = 2

\* Claim C13: once Stop has returned and no SubmitDecodeUnit call is in
\* progress any more, the Fallback Queue is empty.
C13_StopLeavesQueueEmpty ==
    (ctl.pc = "idle" /\ ctl.last = "Stop" /\ net.pc = "idle")
        => pendingFrameQueue = <<>>

\* Claim C14: the TimestampLedger holds at most 120 entries after every
\* operation on it, however long the run and whichever outputs are missing
\* or out of order.
C14_LedgerBounded == Cardinality(timestampToEnqueueTime) <= kMaxTimestampMapSize

\* the ledger is full after more than 120 frames were recorded and outputs
\* were looked up
C14_Witness ==
    /\ Cardinality(timestampToEnqueueTime) = kMaxTimestampMapSize
    /\ frameCount > kMaxTimestampMapSize + 1
    /\ outCount > 0

\* timed waits a SubmitDecodeUnit call at this position can still perform,
\* plus the blocks it still has to run
SubmitRank(n) ==
    CASE n.pc = "idle" -> 0
      [] n.pc = "enqueue" -> 1
      [] n.pc = "query" -> 2 + (kMaxDirectSubmitRetries - n.retryCount)
      [] n.pc = "async_fill" -> 1
      [] n.pc = "async_wait" -> 2
      [] n.pc = "async_lock" -> 3

\* Claim C15: a SubmitDecodeUnit call makes at most 5 timed input-slot
\* acquisition attempts in synchronous mode and at most one timed wait in
\* asynchronous mode: every step of a call in progress brings it strictly
\* closer to its return, and an acquisition is only attempted while fewer
\* than 5 attempts have failed.
C15_SubmitBounded ==
    [][(net.pc # "idle" /\ net' # net) =>
          /\ SubmitRank(net') < SubmitRank(net)
          /\ net.pc = "query" => net.retryCount < kMaxDirectSubmitRetries
          /\ net.pc = "async_wait" => net'.pc \in {"idle", "async_fill"}]_vars

\* a synchronous call has used up all five attempts
C15_Witness ==
    /\ net.mode = "sync" /\ net.pc = "enqueue"
    /\ net.retryCount = kMaxDirectSubmitRetries

\* Claim C16: the worker aborts on output errors only when 50 output polls
\* in a row have failed; a poll that returns a frame or "no output" between
\* two failures restarts the count.
C16_AbortNeedsFiftyInRow == wrk.aborted => ~wrk.interrupted

\* Claim C17: when Init fails at any of its steps it returns a negative
\* value, keeps no engine handle and leaves configured false, so that a
\* following Start fails and SubmitDecodeUnit rejects every frame; when
\* VideoDecoderInstance::Start gives up after a failed Init or Start it
\* returns the failure and no decoder instance is left.
C17_FailedInitLeavesNothing ==
    /\ ctl.failedAt # "none" =>
          /\ ~decoder /\ ~configured /\ ~running
          /\ ctl.last = "Init" => ctl.ret < 0
          /\ ctl.last # "Start"
          /\ ctl.last = "StartFailed" => ctl.ret < 0
          /\ net.pc = "idle" /\ accepted.calls = 0
          /\ frameCount > 0 => net.ret < 0
    /\ ctl.last = "deleted" =>
          /\ ~ctl.instance /\ ctl.ret < 0
          /\ ~decoder /\ ~configured /\ ~running

\* Init failed at its last step, Start was refused, a frame was rejected
\* and the instance was deleted
C17_Witness ==
    /\ ctl.failedAt = "prepare" /\ ctl.last = "deleted"
    /\ frameCount > 0 /\ net.pc = "idle"

\* Claim C18: when Init was asked for synchronous mode on an engine without
\* the synchronous-mode key and succeeded, the pipeline is in asynchronous
\* mode with the callbacks registered exactly once, no decode worker thread
\* is ever created, every SubmitDecodeUnit call runs the asynchronous path,
\* and the mode stays asynchronous for the life of the pipeline.
C18_FallbackIsPermanent ==
    (ctl.needAsyncFallback /\ ctl.failedAt = "none") =>
        /\ decoderMode = "ASYNC"
        /\ ctl.registered = 1
        /\ syncDecodeThread = "none" /\ ~syncDecodeRunning /\ wrk = WrkInit
        /\ net.mode # "sync"
        /\ pendingFrameQueue = <<>>

\* after the fallback the pipeline ran, pushed a frame through the
\* asynchronous path, and was stopped
C18_Witness ==
    /\ ctl.needAsyncFallback /\ ctl.last = "Stop"
    /\ pushed # <<>> /\ frameCount > 1

\* Claim C19: the Init that follows a Cleanup on the same pipeline object
\* finds nothing of the previous session: the TimestampLedger, the Fallback
\* Queue and the input-slot queue are empty, and the window baselines, the
\* fps and bitrate values, the EMA decode latency and the maximum decode
\* latency are those of a freshly constructed pipeline.
C19_ReinitIsFresh ==
    [][(ctl.last = "Cleanup" /\ ctl'.last = "Init")
       => /\ timestampToEnqueueTime' = {}
          /\ pendingFrameQueue' = <<>>
          /\ inputIndexQueue' = <<>>
          /\ statsTiming' = FreshTiming]_vars

\* Claim C20: when the Presentation Clock is anchored, the configured frame
\* rate is greater than 0 and the target extrapolated for pts lies before
\* the current time, CalculatePresentTime returns now plus half a frame
\* interval, which is not before now, and the base it stores satisfies
\* base wall clock + (pts - base pts) * 1000 = the returned value.
C20_LateFrameReanchors ==
    [][(/\ render'.calls = render.calls + 1
        /\ render.timeBaseInitialized /\ render.configuredFps > 0
        /\ render.baseSystemTimeNs
             + (render'.pts - render.basePtsUs) * 1000 < render.nowNs)
       => /\ render'.ret
               = render.nowNs + (1000000000 \div render.configuredFps) \div 2
          /\ render'.ret >= render.nowNs
          /\ render'.timeBaseInitialized
          /\ render'.baseSystemTimeNs
               + (render'.pts - render'.basePtsUs) * 1000 = render'.ret]_vars

\* a late frame has just been answered: the clock was anchored on an
\* earlier call and the answer lies after the extrapolated target
C20_Witness ==
    /\ render.calls > 1 /\ ~render.crashed /\ render.timeBaseInitialized
    /\ render.configuredFps > 0
    /\ render.ret > render.nowNs
    /\ render.ret = render.nowNs + (1000000000 \div render.configuredFps) \div 2

\* Claim C21: when a CalculatePresentTime call whose target was not in the
\* past is followed by a call with a larger pts whose target is not in the
\* past either, the two results differ by exactly (pts2 - pts1) * 1000 ns
\* and the second call leaves the time base as it was; a pts step of
\* 16000 us gives 16,000,000 ns.
C21_SteadyFramesKeepSpacing ==
    [][(/\ render'.calls = render.calls + 1 /\ render.calls > 0
        /\ render.timeBaseInitialized /\ ~render.late
        /\ render.pts < render'.pts
        /\ ~render'.late /\ ~render'.crashed)
       => /\ render'.ret - render.ret = (render'.pts - render.pts) * 1000
          /\ render'.pts - render.pts = 16000
                => render'.ret - render.ret = 16000000
          /\ render'.baseSystemTimeNs = render.baseSystemTimeNs
          /\ render'.basePtsUs = render.basePtsUs]_vars

\* the clock was anchored by a first call at pts 0 and the second call, at
\* pts 16000, was answered 16,000,000 ns after the anchor
C21_Witness ==
    /\ render.calls = 2 /\ ~render.late /\ ~render.crashed
    /\ render.timeBaseInitialized /\ render.basePtsUs = 0
    /\ render.pts = 16000
    /\ render.ret = render.baseSystemTimeNs + 16000000

\* Claim C22: the first decode-latency sample UpdateDecodedStats takes (an
\* enqueue time was found, decode time in [0, 1000) ms) becomes
\* averageDecodeTimeMs exactly, whatever decode completions came before it;
\* a keyframe decoded 12 ms after its enqueue time gives 12.
C22_FirstSampleSeeds ==
    [][(accepted.samples = 0 /\ accepted'.samples = 1)
       => statsTiming'.averageDecodeTimeMs = DFromInt(accepted'.sample)]_vars

\* exact comparisons of values [m, e], rounded or not
XEq(x, y) == ~DLess(x, y) /\ ~DLess(y, x)
XAbsDiff(x, y) == IF DLess(x, y) THEN XSub(y, x) ELSE XSub(x, y)
XTimes(x, k) == [m |-> BMulSmall(x.m, k), e |-> x.e]

\* the step on which UpdateDecodedStats takes a sample on its EMA branch
NonSeedingSample ==
    /\ accepted'.samples = accepted.samples + 1
    /\ stats'.decodedFrames > 1

\* 100 * (a + alpha * (d - a)) for alpha = 0.03 (keyframe) or 0.1
Ideal100(isKeyframe, d, a) ==
    LET num == IF isKeyframe THEN 3 ELSE 10 IN
    XAdd(XTimes(a, 100 - num), XTimes(DFromInt(d), num))

\* how far a sample d moves the average a
Move(isKeyframe, d, a) ==
    XAbsDiff(Ema(env.fpContract, EmaAlpha(isKeyframe), d, a), a)

\* Claim C23 (as stated): a non-seeding sample d moves the average a by
\* exactly 0.03 * (d - a) for a keyframe and 0.1 * (d - a) for a predicted
\* frame; for d # a a keyframe moves it strictly less than a predicted
\* frame would, and for d = a the average stays a.
C23_EmaExact ==
    [][NonSeedingSample =>
         LET a == statsTiming.averageDecodeTimeMs
             d == accepted'.sample
             new == statsTiming'.averageDecodeTimeMs
         IN  /\ XEq(XTimes(new, 100), Ideal100(accepted'.keyframe, d, a))
             /\ a # DFromInt(d) => DLess(Move(TRUE, d, a), Move(FALSE, d, a))
             /\ a = DFromInt(d) => new = a]_vars

\* Claim C23 (amended): a non-seeding sample d moves the average a by
\* 0.03 * (d - a) for a keyframe and 0.1 * (d - a) for a predicted frame up
\* to the rounding of double arithmetic (the new average is within
\* 2^-50 * max(a, d) of that value, so for d = a it stays that close to a);
\* when d and a differ by 1 ms or more a keyframe moves the average
\* strictly less than a predicted frame would.
C23_EmaWithinRounding ==
    [][NonSeedingSample =>
         LET a == statsTiming.averageDecodeTimeMs
             d == accepted'.sample
             new == statsTiming'.averageDecodeTimeMs
             largest == IF DLess(a, DFromInt(d)) THEN DFromInt(d) ELSE a
             error == XAbsDiff(XTimes(new, 100),
                               Ideal100(accepted'.keyframe, d, a))
         IN  /\ ~DLess(XTimes(largest, 100),
                       [m |-> error.m, e |-> error.e + 50])
             /\ ~DLess(XAbsDiff(a, DFromInt(d)), DOne)
                   => DLess(Move(TRUE, d, a), Move(FALSE, d, a))]_vars

\* a keyframe sample of 15 ms on an average seeded with 15 has left the
\* average at 14.999999999999998 (15 - 2^-49)
C23_Witness ==
    /\ stats.decodedFrames = 2 /\ accepted.samples = 2
    /\ accepted.sample = 15 /\ accepted.keyframe
    /\ statsTiming.averageDecodeTimeMs
           = [m |-> <<32767, 32767, 32767, 239>>, e |-> -49]

\* Claim C24: in a synchronous run where the output of each frame is polled
\* before the next frame is submitted, currentFps and renderedFps are equal
\* after the first statistics window update and after every later one.
C24_RatesAgree ==
    (env.lockstep /\ decoderMode = "SYNC")
        => statsTiming.currentFps = statsTiming.renderedFps

\* the second window update of a lockstep run has computed a rate
C24_Witness ==
    /\ env.lockstep /\ decoderMode = "SYNC"
    /\ statsTiming.lastFpsCalculationTime
          >= kTickMs + 2 * kStatsUpdateIntervalMs
    /\ statsTiming.lastFrameCount >= 3
    /\ statsTiming.currentFps # Zero

\* bytes of the first n frames
RECURSIVE SizeSum(_)
SizeSum(n) == IF n = 0 THEN 0 ELSE FrameSize(n) + SizeSum(n - 1)

\* Claim C25: every read and every write of the statistics record happens
\* while the statistics lock is held by the accessing thread, and GetStats
\* returns a copy taken under that lock, so a snapshot never shows a
\* partially applied update (a frame counted whose bytes are not).
C25_StatsUnderLock ==
    /\ \A t \in StatsThreads :
          statsGuard.pos[t] # "idle" => statsGuard.owner = t
    /\ statsGuard.snapshot.counters.totalBytesReceived
          = SizeSum(statsGuard.snapshot.counters.totalFrames)

\* GetStats has returned a snapshot with a frame in it while the network
\* thread was waiting for the lock or about to take it for the next frame
C25_Witness ==
    /\ statsGuard.reads > 0
    /\ statsGuard.snapshot.counters.totalFrames > 0
    /\ statsGuard.snapshot.counters.decodedFrames > 0
    /\ statsGuard.pos["net"] # "idle"

\* Claim C26: when recording a timestamp makes the TimestampLedger exceed
\* its maximum size, the entry removed is the one with the oldest enqueue
\* time (the smallest recorded pts, frames being recorded in pts order), and
\* never the entry that was just recorded.
C26_EvictsOldest ==
    [][(/\ frameCount' = frameCount + 1
        /\ Cardinality(timestampToEnqueueTime) = kMaxTimestampMapSize
        /\ FrameTimestamp(frameCount') \notin timestampToEnqueueTime)
       => /\ FrameTimestamp(frameCount') \in timestampToEnqueueTime'
          /\ SetMin(timestampToEnqueueTime) \notin timestampToEnqueueTime'
      ]_vars

\* Claim C27: SubmitDecodeUnit called when the pipeline is not Running
\* (before Start, after Stop or after Cleanup) returns a failure and changes
\* nothing: statistics, Fallback Queue, TimestampLedger and the asynchronous
\* input-slot queue are unchanged and no engine call is made.
C27_NotRunningRejects ==
    [][(net.pc = "idle" /\ frameCount' = frameCount + 1 /\ ~running)
       => /\ net'.pc = "idle" /\ net'.ret < 0
          /\ stats' = stats /\ statsTiming' = statsTiming
          /\ accepted' = accepted
          /\ pendingFrameQueue' = pendingFrameQueue
          /\ timestampToEnqueueTime' = timestampToEnqueueTime
          /\ inputIndexQueue' = inputIndexQueue
          /\ pushed' = pushed /\ outCount' = outCount
          /\ handleCount' = handleCount /\ leaked' = leaked]_vars

\* a call made after Stop has returned -1: the pipeline had been started,
\* and no call passed the running check
C27_Witness ==
    /\ ctl.pc = "idle" /\ ctl.last = "Stop" /\ decoder /\ ~running
    /\ syncDecodeThread = "joined"
    /\ frameCount > 0 /\ net.pc = "idle" /\ net.ret = -1
    /\ accepted.calls = 0

\* Claim C28: in synchronous mode every decoded output that is polled is
\* rendered immediately or freed within the same SyncProcessOutput call that
\* polled it (the timed presentation call is never used), so no output slot
\* is held across worker loop iterations.
C28_SyncOutputReleased ==
    [][(wrk.pc = "render" /\ wrk'.pc # "render")
       => "output" \notin leaked']_vars

\* Claim C29: in each iteration of the synchronous worker loop at most 4
\* frames are moved from the Fallback Queue to the engine, the batch ends
\* at the first busy or error result, and exactly one output poll follows
\* the batch.
C29_BatchThenOnePoll ==
    [][wrk' # wrk =>
         /\ wrk'.queueProcessed <= maxQueueBatch
         /\ wrk'.pc = "query" => wrk.pc = "batch" /\ wrk.queueProcessed < maxQueueBatch
         /\ wrk'.pc = "batch" =>
               \/ wrk.pc = "loop" /\ wrk'.queueProcessed = 0
               \/ /\ wrk.pc = "fill"
                  /\ wrk'.queueProcessed = wrk.queueProcessed + 1
                  /\ pushed' = Append(pushed, wrk.frame.frameNumber)
         /\ wrk.pc \in {"query", "take", "fill"} =>
               \/ wrk'.pc = "output" /\ pushed' = pushed
               \/ wrk.pc = "query" /\ wrk'.pc = "take"
               \/ wrk.pc = "take" /\ wrk'.pc = "fill"
               \/ wrk.pc = "fill" /\ wrk'.pc = "batch"
         /\ wrk'.pc = "output" => wrk.pc \in {"batch", "query", "take", "fill"}
         /\ wrk.pc = "output" => wrk'.pc \in {"render", "loop", "wait", "exited"}
         /\ wrk.pc = "render" => wrk'.pc \in {"loop", "wait", "exited"}
         /\ wrk.pc = "wait" => wrk'.pc = "loop"]_vars

\* a batch has ended after 4 frames although another frame is queued
C29_Witness ==
    /\ wrk.pc = "output" /\ wrk.queueProcessed = maxQueueBatch
    /\ pendingFrameQueue # <<>>

C31_AfterReanchorContinues ==
    [][(/\ render'.calls = render.calls + 1
        /\ render.late /\ ~render.crashed /\ render.timeBaseInitialized
        /\ render'.pts > render.pts
        /\ render.nowNs <= render.ret + (render'.pts - render.pts) * 1000)
       => /\ render'.ret = render.ret + (render'.pts - render.pts) * 1000
          /\ ~render'.late /\ ~render'.crashed
          /\ render'.baseSystemTimeNs = render.baseSystemTimeNs
          /\ render'.basePtsUs = render.basePtsUs]_vars

\* the third call of a run at 60 fps was answered on time from a base that
\* the second, late call had re-anchored (an anchor equals a clock reading,
\* a re-anchored base does not), later than that call's answer: its pts
\* was the larger one
C31_Witness ==
    /\ render.calls = 3 /\ ~render.late /\ ~render.crashed
    /\ render.timeBaseInitialized /\ render.configuredFps = 60
    /\ render.baseSystemTimeNs % kClockStepNs # 0
    /\ render.ret > render.nowNs + (1000000000 \div 60) \div 2

\* Claim C32: in asynchronous mode each output-ready callback issues
\* exactly one render call for its handle: an immediate render when the
\* VSync policy (as the callback found it) is off, a timed render at
\* CalculatePresentTime(pts) when it is on; with the policy off the
\* callback neither reads nor modifies the presentation time base; and the
\* first timed frame of a callback that found the policy after its value
\* changed anchors a new time base (base wall clock = now, base pts = pts).
C32_OneRenderPerOutput ==
    [][(render.cb.pc = "render" /\ render'.cb.pc = "idle") =>
         /\ render'.immediate + render'.timed
               = render.immediate + render.timed + 1
         /\ render.cb.timed =>
               /\ render'.timed = render.timed + 1
               /\ render'.calls = render.calls + 1
               /\ render'.pts = render.cb.pts
         /\ ~render.cb.timed =>
               /\ render'.immediate = render.immediate + 1
               /\ render'.calls = render.calls
               /\ render'.timeBaseInitialized = render.timeBaseInitialized
               /\ render'.baseSystemTimeNs = render.baseSystemTimeNs
               /\ render'.basePtsUs = render.basePtsUs
         /\ (render.cb.timed /\ render.cb.sawChange /\ render.pendingAnchor)
               => /\ render'.timeBaseInitialized
                  /\ render'.baseSystemTimeNs = render.nowNs
                  /\ render'.basePtsUs = render.cb.pts
                  /\ render'.ret = render.nowNs]_vars

\* Claim C33: a decoded frame whose ledger entry is missing, or whose
\* computed decode time is outside [0, 1000) ms, still increments
\* decodedFrames by 1 but leaves averageDecodeTimeMs and maxDecodeTimeMs
\* unchanged.
C33_OutliersSkipped ==
    [][(/\ stats'.decodedFrames # stats.decodedFrames
        /\ \/ ~accepted'.entry
           \/ accepted'.decodeTimeMs < 0
           \/ accepted'.decodeTimeMs >= 1000)
       => /\ stats'.decodedFrames = stats.decodedFrames + 1
          /\ statsTiming'.averageDecodeTimeMs
                = statsTiming.averageDecodeTimeMs
          /\ statsTiming'.maxDecodeTimeMs = statsTiming.maxDecodeTimeMs]_vars

\* the second decoded frame had a ledger entry recorded exactly 1000 ms
\* earlier; the average is still the 12 ms of the first frame
C33_Witness ==
    /\ stats.decodedFrames = 2 /\ accepted.samples = 1
    /\ accepted.entry /\ accepted.stamped
    /\ accepted.decodeTimeMs = 1000
    /\ statsTiming.averageDecodeTimeMs = DFromInt(12)
    /\ statsTiming.maxDecodeTimeMs = 12

\* Claim C34: in synchronous mode, whenever no SubmitDecodeUnit call and no
\* worker submission is in progress, totalFrames = frames successfully
\* pushed to the engine + droppedFrames + Fallback Queue length.
C34_FramesAccounted ==
    (/\ decoderMode = "SYNC" /\ decoder
     /\ net.pc = "idle" /\ wrk.pc \notin {"query", "take", "fill"})
    => stats.totalFrames
         = Len(pushed) + stats.droppedFrames + Len(pendingFrameQueue)

\* after SyncDecodeLoop has returned nothing empties a non-empty queue,
\* however many frames still arrive
StuckOnceWorkerReturned ==
    [][(wrk.pc = "exited" /\ pendingFrameQueue # <<>>)
       => pendingFrameQueue' # <<>>]_vars

\* the frameNumbers held in the Fallback Queue
Queued == {pendingFrameQueue[i].frameNumber : i \in DOMAIN pendingFrameQueue}

\* Claim C38: each frame passed to SubmitDecodeUnit is successfully pushed
\* to the engine at most once: a pushed frame is not in the Fallback Queue
\* nor in the worker's hands, and a frame the worker holds has left the
\* queue.
C38_PushedAtMostOnce ==
    /\ \A i, j \in DOMAIN pushed : i # j => pushed[i] # pushed[j]
    /\ \A i \in DOMAIN pushed :
          /\ pushed[i] \notin Queued
          /\ wrk.frame # NoFrame => pushed[i] # wrk.frame.frameNumber
    /\ wrk.frame # NoFrame => wrk.frame.frameNumber \notin Queued

\* a later frame went in directly before the worker pushed a queued one
C38_Witness ==
    /\ Len(pushed) >= 2 /\ pushed[1] > pushed[2]
    /\ net.pc = "idle"

\* Claim C35: for every interleaving of
\* VideoDecoderInstance::SubmitDecodeUnit with Cleanup, Start or Init on
\* another thread, SubmitDecodeUnit never uses a decoder instance or an
\* engine handle after it was destroyed: every step the network thread
\* takes inside the call is taken while the instance and its handle exist.
C35_NoUseAfterDestroy ==
    [][(net' # net /\ net.pc # "idle") => (ctl.instance /\ decoder)]_vars

\* Claim C36: at most one synchronous decode worker thread exists per
\* pipeline at any time: Start never creates a new worker while a
\* previously created worker thread has not been joined, for any sequence
\* of Start, Stop and Resume calls.
C36_OneWorker == syncDecodeThread # "doubled"

\* Claim C37: in synchronous mode, while the pipeline stays Running and the
\* engine eventually grants input slots, the Fallback Queue does not stay
\* non-empty forever under fair scheduling of the worker.
C37_QueueDrains ==
    (running /\ pendingFrameQueue # <<>>) ~> (pendingFrameQueue = <<>>)

\* as long as SyncDecodeLoop has not returned, a non-empty queue is drained
DrainsWhileWorkerLives ==
    (running /\ pendingFrameQueue # <<>> /\ wrk.pc # "exited")
        ~> (pendingFrameQueue = <<>> \/ wrk.pc = "exited")

\* thread t cannot take its next step: the mutex it asks for is held, or
\* it waits in join() for a worker that has not returned
LockBlocked(t) ==
    /\ locks.todo[t] # <<>>
    /\ \/ /\ Head(locks.todo[t]).k = "acq"
          /\ LockOwner(Head(locks.todo[t]).l) # "none"
       \/ /\ Head(locks.todo[t]).k = "join"
          /\ ~locks.exited
\* the thread t waits for
LockBlocker(t) ==
    IF Head(locks.todo[t]).k = "join" THEN "wrk"
    ELSE LockOwner(Head(locks.todo[t]).l)

\* Claim C39: no interleaving of SubmitDecodeUnit, the synchronous worker,
\* the engine callbacks, GetStats, Stop and Cleanup deadlocks on the
\* pipeline's locks: no set of threads waits for one another; locks are
\* nested only as Fallback-Queue lock -> statistics lock and
\* input-slot-queue lock -> statistics lock; no thread asks for another
\* lock while it holds the statistics or the ledger lock; Stop holds no
\* lock while it waits to join the worker.
C39_NoLockDeadlock ==
    /\ ~\E S \in SUBSET LockThreads :
          /\ S # {}
          /\ \A t \in S : LockBlocked(t) /\ LockBlocker(t) \in S
    /\ \A t \in LockThreads :
          /\ locks.stack[t] \in
                {<<>>, <<"pending", "stats">>, <<"input", "stats">>}
                \cup {<<l>> : l \in Mutexes}
          /\ (locks.todo[t] # <<>> /\ Head(locks.todo[t]).k = "acq")
                => \A i \in DOMAIN locks.stack[t] :
                      locks.stack[t][i] \notin {"stats", "ledger"}
    /\ (locks.todo["ctl"] # <<>> /\ Head(locks.todo["ctl"]).k = "join")
          => locks.stack["ctl"] = <<>>

\* Stop waits in join() while the worker holds the Fallback-Queue lock, the
\* network thread holds the input-slot-queue lock and the statistics lock,
\* and the callback thread and GetStats wait for those
C39_Witness ==
    /\ locks.todo["ctl"] # <<>> /\ Head(locks.todo["ctl"]).k = "join"
    /\ locks.stack["wrk"] = <<"pending">>
    /\ locks.stack["net"] = <<"input", "stats">>
    /\ LockBlocked("cb") /\ LockBlocker("cb") = "net"
    /\ LockBlocked("app") /\ LockBlocker("app") = "net"

====
